---------------------------- MODULE Spec2Model ----------------------------
(***************************************************************************)
(* Model of the reefnet sensus device session (libdivecomputer), its dive  *)
(* extraction engine, the generic device layer (device.c), the BLE bridge  *)
(* (LibDCBridge/configuredc.c) and the BLE transports.                     *)
(*                                                                         *)
(* Bytes are naturals 0..255, buffers are sequences of bytes.  A C index i *)
(* into a buffer is element i + 1 of the sequence.                         *)
(***************************************************************************)
EXTENDS Integers, Sequences, FiniteSets, TLC

(***************************************************************************)
(* Program constants.                                                      *)
(***************************************************************************)
SZ_MEMORY == 32768
SZ_HANDSHAKE == 10

(***************************************************************************)
(* Bounds of the model.  MemSize is the memory size the byte-level         *)
(* specification Spec runs the session with (the code is parametric in     *)
(* SZ_MEMORY; SpecWire runs the same operators with SZ_MEMORY itself).     *)
(***************************************************************************)
MemSize == 260
MaxStop == 2
MaxSize == 6
MaxBlock == 3
\* The number of events one call of a backend emits in SpecEmit.
MaxEmits == 3

(***************************************************************************)
(* Status codes (dc_status_t).                                             *)
(***************************************************************************)
DC_STATUS_SUCCESS == "DC_STATUS_SUCCESS"
DC_STATUS_UNSUPPORTED == "DC_STATUS_UNSUPPORTED"
DC_STATUS_INVALIDARGS == "DC_STATUS_INVALIDARGS"
DC_STATUS_NOMEMORY == "DC_STATUS_NOMEMORY"
DC_STATUS_IO == "DC_STATUS_IO"
DC_STATUS_TIMEOUT == "DC_STATUS_TIMEOUT"
DC_STATUS_PROTOCOL == "DC_STATUS_PROTOCOL"
DC_STATUS_DATAFORMAT == "DC_STATUS_DATAFORMAT"

\* The statuses a failing transport call returns.
TransportErrors == {DC_STATUS_IO, DC_STATUS_TIMEOUT}

(***************************************************************************)
(* Byte utilities.                                                         *)
(***************************************************************************)
\* Variant of array_uint16_le that reads the bytes in big-endian order.
array_uint16_le_be(array) == array[1] * 256 + array[2]
\* array[0] | (array[1] << 8): the bytes occupy disjoint bits, so | is +.
array_uint16_le(array) == array[1] + array[2] * 256

\* The model's inputs keep the most significant byte below 128, so that the
\* value stays inside the integers of the model checker.
array_uint32_le(array) ==
    array[1] + array[2] * 256 + array[3] * 65536 + array[4] * 16777216

\* Sum of data[lo..hi] (1-based, inclusive), by halving so that a 32768-byte
\* payload does not need a 32768-deep evaluation.
RECURSIVE SumBytes(_, _, _)
SumBytes(data, lo, hi) ==
    IF lo > hi THEN 0
    ELSE IF lo = hi THEN data[lo]
    ELSE LET mid == (lo + hi) \div 2
         IN SumBytes(data, lo, mid) + SumBytes(data, mid + 1, hi)

\* checksum_add_uint16 (data, size, init): additive checksum, 16 bits wide.
checksum_add_uint16(data, init) == (init + SumBytes(data, 1, Len(data))) % 65536

Rep(b, n) == [i \in 1..n |-> b]

(***************************************************************************)
(* Dive extraction: reefnet_sensus_extract_dives.                          *)
(***************************************************************************)
\* Variant of NearSurface that counts a depth of 16 as near the surface.
NearSurface_incl(depth) == depth <= 13 + 3
\* depth < 13 + 3
NearSurface(depth) == depth < 13 + 3

\* Variant of OlderThanFingerprint with "<" in place of "<=".
OlderThanFingerprint_lt(timestamp, cursor) == timestamp < cursor
\* timestamp <= device->timestamp
OlderThanFingerprint(timestamp, cursor) == timestamp <= cursor

\* The visitor: NULL, or a function that answers 0 ("stop") on its stopAt-th
\* invocation and nonzero otherwise (stopAt = 0: never stops).
CallbackReturn(cb, n) == IF cb.stopAt = n THEN 0 ELSE 1

\* Variant of StopsAfterVisit that ignores the answer of the visitor.
StopsAfterVisit_never(cb, n) == FALSE
\* callback && !callback (...): whether the scan returns after this dive.
StopsAfterVisit(cb, n) == ~cb.null /\ CallbackReturn(cb, n) = 0

\* The inner loop (lines 380-405) walks the samples of a dive forward from
\* offset start: sample n takes one depth byte, and one temperature byte more
\* when n % 6 == 0.  SampleAt is the offset of the depth byte of sample n.
SampleAt(start, n) == start + n + (n + 5) \div 6

\* The offset after sample n.
SampleEnd(start, n) == SampleAt(start, n) + (IF n % 6 = 0 THEN 2 ELSE 1)

\* Variant of SampleRead without the break at the temperature byte.
SampleRead_notemp(start, previous, n) == SampleAt(start, n) + 1 <= previous
\* Sample n is one the loop gets to count: "offset + 1 <= previous" holds at
\* its depth byte, and "offset + 1 > previous" does not break at its
\* temperature byte.
SampleRead(start, previous, n) == SampleEnd(start, n) <= previous

\* count == 17 at sample n: the samples n - 16 .. n are all near the surface.
SurfacedAt(data, start, n) ==
    /\ n >= 16
    /\ \A j \in (n - 16)..n : NearSurface(data[SampleAt(start, j) + 1])

\* The result of the inner loop: found, and the offset it stopped at when found.
WalkSamples(data, previous, start) ==
    LET ends == {n \in 0..(previous - start) :
                    SampleRead(start, previous, n) /\ SurfacedAt(data, start, n)}
    IN IF ends = {} THEN [found |-> FALSE, offset |-> previous]
       ELSE LET n == CHOOSE e \in ends : \A f \in ends : e <= f
            IN [found |-> TRUE, offset |-> SampleEnd(start, n)]

\* The start markers below current: the positions the backward search of the
\* outer loop stops at (data[current] == 0xFF && data[current + 6] == 0xFE).
Markers(data, current) ==
    {c \in 0..(current - 1) : data[c + 1] = 255 /\ data[c + 6 + 1] = 254}

\* Variant of NoEndOfDive that takes every walk as having found the end.
NoEndOfDive_never(w) == FALSE
\* if (!found): the walk reached the boundary without a run of 17 samples.
NoEndOfDive(w) == ~w.found

\* Variant of ScanResume that steps back by 6.
ScanResume_six(current) == IF current >= 6 THEN current - 6 ELSE 0
\* "size >= 7 ? size - 7 : 0" and "current >= 7 ? current - 7 : 0": where the
\* backward search starts, and where it resumes after a dive (lines 369, 423).
ScanResume(current) == IF current >= 7 THEN current - 7 ELSE 0

\* The indices the outer loop tests for a marker when it runs from current
\* down to cur: "current--" comes before the test, so they are below current.
Examined(current, cur) == cur..(current - 1)

\* The bytes the marker test reads: data[current], and data[current + 6] when
\* the first is 0xFF.
MarkerReads(data, current, cur) ==
    Examined(current, cur)
        \cup {c + 6 : c \in {e \in Examined(current, cur) : data[e + 1] = 255}}

\* The depth bytes the inner loop reads ("data[offset++]" under
\* "offset + 1 <= previous"), up to the sample it stops at; a temperature byte
\* is stepped over, not read.
WalkReads(previous, start, w) ==
    {SampleAt(start, n) :
        n \in {k \in 0..(previous - start) :
                  /\ SampleAt(start, k) + 1 <= previous
                  /\ w.found => SampleEnd(start, k) <= w.offset}}

\* Variant of WalkLimit that leaves the limit where it was.
WalkLimit_keep(previous, current) == previous
\* "previous = current" (line 421): the start of the dive just handled is the
\* limit of the inner loop for the next, older dive.
WalkLimit(previous, current) == current

\* Variant of ScanDives that tests the timestamp against the cursor before it
\* looks for the end of the dive.
RECURSIVE ScanDives_cursor_first(_, _, _, _, _, _, _)
ScanDives_cursor_first(data, hasDevice, cursor, cb, previous, current, visits) ==
    IF Markers(data, current) = {}
    THEN [rc |-> DC_STATUS_SUCCESS, visits |-> visits,
          examined |-> Examined(current, 0), reads |-> MarkerReads(data, current, 0),
          walks |-> <<>>]
    ELSE
      LET cur == CHOOSE c \in Markers(data, current) :
                     \A d \in Markers(data, current) : d <= c
          w == WalkSamples(data, previous, cur + 7)
          walked == MarkerReads(data, current, cur) \cup WalkReads(previous, cur + 7, w)
          wk == [start |-> cur, previous |-> previous, current |-> current,
                 found |-> w.found, offset |-> w.offset,
                 reads |-> WalkReads(previous, cur + 7, w)]
          stamped == walked \cup (cur + 2)..(cur + 5)
          timestamp == array_uint32_le(SubSeq(data, cur + 3, cur + 6))
      IN
        IF hasDevice /\ OlderThanFingerprint(timestamp, cursor)
        THEN [rc |-> DC_STATUS_SUCCESS, visits |-> visits,
              examined |-> Examined(current, cur), reads |-> stamped,
              walks |-> <<wk>>]
        ELSE IF NoEndOfDive(w)
        THEN [rc |-> DC_STATUS_DATAFORMAT, visits |-> visits,
              examined |-> Examined(current, cur), reads |-> stamped,
              walks |-> <<wk>>]
        ELSE
            LET v == [data |-> cur, size |-> w.offset - cur,
                      fingerprint |-> cur + 2, fsize |-> 4]
                visits2 == IF cb.null THEN visits ELSE Append(visits, v)
            IN IF StopsAfterVisit(cb, Len(visits2))
               THEN [rc |-> DC_STATUS_SUCCESS, visits |-> visits2,
                     examined |-> Examined(current, cur), reads |-> stamped,
                     walks |-> <<wk>>]
               ELSE [ScanDives_cursor_first(data, hasDevice, cursor, cb,
                                            WalkLimit(previous, cur),
                                            ScanResume(cur), visits2)
                        EXCEPT !.examined = @ \cup Examined(current, cur),
                               !.reads = @ \cup stamped,
                               !.walks = <<wk>> \o @]

\* The outer loop (lines 371-425): "while (current > 0) { current--; ..." runs
\* down to the highest marker below current, or to 0.  hasDevice is
\* "device != NULL"; visits is the sequence of visitor invocations so far.
\* The result also tells which indices were tested for a marker, which bytes
\* of data were read, and for every marker found (walks) the values of
\* previous and current the outer loop came with and what the inner loop did.
RECURSIVE ScanDives(_, _, _, _, _, _, _)
ScanDives(data, hasDevice, cursor, cb, previous, current, visits) ==
    IF Markers(data, current) = {}
    THEN [rc |-> DC_STATUS_SUCCESS, visits |-> visits,
          examined |-> Examined(current, 0), reads |-> MarkerReads(data, current, 0),
          walks |-> <<>>]
    ELSE
      LET cur == CHOOSE c \in Markers(data, current) :
                     \A d \in Markers(data, current) : d <= c
          w == WalkSamples(data, previous, cur + 7)
          walked == MarkerReads(data, current, cur) \cup WalkReads(previous, cur + 7, w)
          wk == [start |-> cur, previous |-> previous, current |-> current,
                 found |-> w.found, offset |-> w.offset,
                 reads |-> WalkReads(previous, cur + 7, w)]
          stamped == walked \cup (cur + 2)..(cur + 5)
      IN
        IF NoEndOfDive(w)
        THEN [rc |-> DC_STATUS_DATAFORMAT, visits |-> visits,
              examined |-> Examined(current, cur), reads |-> walked,
              walks |-> <<wk>>]
        ELSE
          LET timestamp == array_uint32_le(SubSeq(data, cur + 3, cur + 6)) IN
          IF hasDevice /\ OlderThanFingerprint(timestamp, cursor)
          THEN [rc |-> DC_STATUS_SUCCESS, visits |-> visits,
                examined |-> Examined(current, cur), reads |-> stamped,
                walks |-> <<wk>>]
          ELSE
            LET v == [data |-> cur, size |-> w.offset - cur,
                      fingerprint |-> cur + 2, fsize |-> 4]
                visits2 == IF cb.null THEN visits ELSE Append(visits, v)
            IN IF StopsAfterVisit(cb, Len(visits2))
               THEN [rc |-> DC_STATUS_SUCCESS, visits |-> visits2,
                     examined |-> Examined(current, cur), reads |-> stamped,
                     walks |-> <<wk>>]
               ELSE [ScanDives(data, hasDevice, cursor, cb, WalkLimit(previous, cur),
                               ScanResume(cur), visits2)
                        EXCEPT !.examined = @ \cup Examined(current, cur),
                               !.reads = @ \cup stamped,
                               !.walks = <<wk>> \o @]

reefnet_sensus_extract_dives(data, size, hasDevice, cursor, cb) ==
    ScanDives(data, hasDevice, cursor, cb, size, ScanResume(size), <<>>)

\* Variant of ExtractDivesEffect that moves the cursor up to the newest dive
\* it has handed to the visitor.
ExtractDivesEffect_advance(s, r) ==
    IF r.visits = <<>> THEN s
    ELSE [s EXCEPT !.dev.timestamp =
             array_uint32_le(SubSeq(s.image, r.visits[1].fingerprint + 1,
                                             r.visits[1].fingerprint + 4))]
\* What the extraction leaves of s, the session (dev) and the buffer (image)
\* it was given, r being its result: data is const and device is only read.
ExtractDivesEffect(s, r) == s

(***************************************************************************)
(* The machine the handlers run on.  A handler is an operator from a       *)
(* machine record (the program state plus the record of what the call has  *)
(* done so far) and the environment's answers env to a machine record.     *)
(*   dev     the session (reefnet_sensus_device_t and its dc_device_t base)*)
(*   data    the bridge's device_data_t, pointers as "is non-null"         *)
(*   io      the transport (dc_iostream_t) and its BLE object              *)
(*   res     allocation counters: contexts and sessions                    *)
(*   buffer  the dc_buffer_t the call works on                             *)
(*   iolog   the transport calls made, in order                            *)
(*   events  the events handed to device_event_emit, in order              *)
(*   delivered  the events dispatched to the subscriber                    *)
(*   calls   the library calls a bridge function made, in order            *)
(*   arg     the bytes the call was given                                  *)
(*   out     whether the call has written its output parameter             *)
(***************************************************************************)
DC_EVENT_WAITING == "DC_EVENT_WAITING"
DC_EVENT_PROGRESS == "DC_EVENT_PROGRESS"
DC_EVENT_DEVINFO == "DC_EVENT_DEVINFO"
DC_EVENT_CLOCK == "DC_EVENT_CLOCK"
DC_EVENT_VENDOR == "DC_EVENT_VENDOR"

NoDevinfo == [model |-> 0, firmware |-> 0, serial |-> 0]
NoClock == [devtime |-> 0, systime |-> 0]

\* dc_device_allocate followed by the defaults of reefnet_sensus_device_open.
\* cancel_callback is "is not NULL"; the callback the application registers
\* answers the flag its userdata points to, and cancel_userdata is that flag.
NewDevice ==
    [state |-> "open", waiting |-> 0, timestamp |-> 0, systime |-> -1,
     devtime |-> 0, handshake |-> Rep(0, SZ_HANDSHAKE),
     event_mask |-> {}, event_callback |-> FALSE,
     cancel_callback |-> FALSE, cancel_userdata |-> 0,
     devinfo |-> NoDevinfo, clock |-> NoClock]

NoDevice == [NewDevice EXCEPT !.state = "none"]

IoCall(call, data, size, rc) == [call |-> call, data |-> data, size |-> size, rc |-> rc]

\* One call of the transport; rc is the status the transport answers.
dc_iostream_write(m, data, rc) ==
    [m EXCEPT !.iolog = Append(@, IoCall("write", data, Len(data), rc))]
dc_iostream_read(m, size, rc, data) ==
    [m EXCEPT !.iolog = Append(@, IoCall("read", data, size, rc))]
dc_iostream_sleep(m, ms) ==
    [m EXCEPT !.iolog = Append(@, IoCall("sleep", <<>>, ms, DC_STATUS_SUCCESS))]
dc_iostream_configure(m, rc) ==
    [m EXCEPT !.iolog = Append(@, IoCall("configure", <<>>, 19200, rc))]
dc_iostream_set_timeout(m, rc) ==
    [m EXCEPT !.iolog = Append(@, IoCall("set_timeout", <<>>, 3000, rc))]
dc_iostream_purge(m) ==
    [m EXCEPT !.iolog = Append(@, IoCall("purge", <<>>, 0, DC_STATUS_SUCCESS))]

\* ble_stream_close: ble_close, freeBLEObject, free of the stream.
ble_stream_close(m, rc) ==
    [m EXCEPT !.iolog = Append(@, IoCall("close", <<>>, 0, rc)),
              !.io.state = "closed",
              !.io.closes = @ + 1,
              !.io.ble_frees = @ + 1,
              !.io.stream_frees = @ + 1]

\* dc_iostream_close dispatches to the close of the backend.
dc_iostream_close(m, rc) == ble_stream_close(m, rc)

(***************************************************************************)
(* device.c: the generic device layer.                                     *)
(***************************************************************************)
\* The assertions at the top of device_event_emit.
EmitAsserts(event, data) ==
    event = DC_EVENT_PROGRESS => (data.maximum # 0 /\ data.maximum >= data.current)

\* Variant of Dispatches that does not look at the event mask.
Dispatches_nomask(dev, event) == dev.event_callback
\* Whether the subscriber is called (lines 331-339).
Dispatches(dev, event) == dev.event_callback /\ event \in dev.event_mask

\* Variant of CacheEvent that caches only what the subscriber is given.
CacheEvent_dispatched(dev, event, data) ==
    [dev EXCEPT !.devinfo = IF event = DC_EVENT_DEVINFO /\ Dispatches(dev, event)
                            THEN data ELSE @,
                !.clock = IF event = DC_EVENT_CLOCK /\ Dispatches(dev, event)
                          THEN data ELSE @]
\* The session after the caching of the event data (lines 316-328).
CacheEvent(dev, event, data) ==
    [dev EXCEPT !.devinfo = IF event = DC_EVENT_DEVINFO THEN data ELSE @,
                !.clock = IF event = DC_EVENT_CLOCK THEN data ELSE @]

\* Each event is logged with the value of waiting and the number of transport
\* calls made when it is emitted, and with the cached device info and clock
\* as they are when the function reaches the dispatch (line 339).
device_event_emit(m, event, data) ==
    LET e == [type |-> event, data |-> data,
              waiting |-> m.dev.waiting, at |-> Len(m.iolog),
              devinfo |-> CacheEvent(m.dev, event, data).devinfo,
              clock |-> CacheEvent(m.dev, event, data).clock] IN
    [m EXCEPT !.events = Append(@, e),
              !.assert_failed = @ \/ ~EmitAsserts(event, data),
              !.dev = CacheEvent(@, event, data),
              !.delivered = IF Dispatches(m.dev, event) THEN Append(@, e) ELSE @]

dc_device_set_cancel(m, callback, userdata) ==
    IF m.dev.state # "open" THEN [m EXCEPT !.rc = DC_STATUS_UNSUPPORTED]
    ELSE [m EXCEPT !.dev.cancel_callback = callback,
                   !.dev.cancel_userdata = userdata,
                   !.rc = DC_STATUS_SUCCESS]

\* device_is_cancelled: 0 without a device or a callback, else the answer of
\* the callback.
device_is_cancelled(d) ==
    IF d.state # "open" THEN 0
    ELSE IF ~d.cancel_callback THEN 0
    ELSE d.cancel_userdata

dc_device_deallocate(m) ==
    [m EXCEPT !.dev.state = "freed", !.res.dev_frees = @ + 1]

\* dc_status_set_error: the first error is the one kept.
dc_status_set_error(status, error) ==
    IF status = DC_STATUS_SUCCESS THEN error ELSE status

(***************************************************************************)
(* reefnet_sensus.c: the session.                                          *)
(***************************************************************************)
reefnet_sensus_cancel(m, env) ==
    LET m1 == dc_iostream_write(m, <<0>>, env.wc) IN
    IF env.wc # DC_STATUS_SUCCESS THEN [m1 EXCEPT !.rc = env.wc]
    ELSE [m1 EXCEPT !.dev.waiting = 0, !.rc = DC_STATUS_SUCCESS]

\* Variant of MustCancel that never cancels.
MustCancel_never(dev) == FALSE
\* if (device->waiting)
MustCancel(dev) == dev.waiting # 0

\* Variant of reefnet_sensus_device_close that also closes the transport.
reefnet_sensus_device_close_closing(m, env) ==
    LET m1 == IF MustCancel(m.dev) THEN reefnet_sensus_cancel(m, env) ELSE m
    IN dc_iostream_close([m1 EXCEPT !.rc = DC_STATUS_SUCCESS], DC_STATUS_SUCCESS)
reefnet_sensus_device_close(m, env) ==
    IF MustCancel(m.dev)
    THEN LET m1 == reefnet_sensus_cancel(m, env)
         IN [m1 EXCEPT !.rc = IF m1.rc # DC_STATUS_SUCCESS
                               THEN dc_status_set_error(DC_STATUS_SUCCESS, m1.rc)
                               ELSE DC_STATUS_SUCCESS]
    ELSE [m EXCEPT !.rc = DC_STATUS_SUCCESS]

\* Variant of dc_device_close that keeps the session when its close fails.
dc_device_close_keep(m, env) ==
    LET m1 == reefnet_sensus_device_close([m EXCEPT !.dev.cancel_callback = FALSE], env)
    IN IF m1.rc # DC_STATUS_SUCCESS THEN m1 ELSE dc_device_deallocate(m1)
dc_device_close(m, env) ==
    LET m1 == reefnet_sensus_device_close([m EXCEPT !.dev.cancel_callback = FALSE], env)
        m2 == dc_device_deallocate(m1)
    IN [m2 EXCEPT !.rc = m1.rc]

\* Variant of reefnet_sensus_device_open that returns without error_free.
reefnet_sensus_device_open_nofree(m, env) ==
    IF ~env.alloc THEN [m EXCEPT !.rc = DC_STATUS_NOMEMORY]
    ELSE
      LET m1 == [m EXCEPT !.dev = NewDevice, !.res.dev_allocs = @ + 1]
          m2 == dc_iostream_configure(m1, env.cfg)
      IN IF env.cfg # DC_STATUS_SUCCESS THEN [m2 EXCEPT !.rc = env.cfg]
         ELSE LET m3 == dc_iostream_set_timeout(m2, env.tmo) IN
              IF env.tmo # DC_STATUS_SUCCESS THEN [m3 EXCEPT !.rc = env.tmo]
              ELSE [dc_iostream_purge(m3) EXCEPT !.out = TRUE, !.rc = DC_STATUS_SUCCESS]
reefnet_sensus_device_open(m, env) ==
    IF ~env.alloc THEN [m EXCEPT !.rc = DC_STATUS_NOMEMORY]
    ELSE
      LET m1 == [m EXCEPT !.dev = NewDevice, !.res.dev_allocs = @ + 1]
          m2 == dc_iostream_configure(m1, env.cfg)
      IN IF env.cfg # DC_STATUS_SUCCESS
         THEN [dc_device_deallocate(m2) EXCEPT !.rc = env.cfg]
         ELSE LET m3 == dc_iostream_set_timeout(m2, env.tmo) IN
              IF env.tmo # DC_STATUS_SUCCESS
              THEN [dc_device_deallocate(m3) EXCEPT !.rc = env.tmo]
              ELSE [dc_iostream_purge(m3) EXCEPT !.out = TRUE, !.rc = DC_STATUS_SUCCESS]

\* Variant of reefnet_sensus_device_set_fingerprint that resets the cursor when
\* it refuses the length.
reefnet_sensus_device_set_fingerprint_reset(m, data) ==
    IF Len(data) = 4
    THEN [m EXCEPT !.dev.timestamp = array_uint32_le(data), !.rc = DC_STATUS_SUCCESS]
    ELSE [m EXCEPT !.dev.timestamp = 0,
                   !.rc = IF Len(data) = 0 THEN DC_STATUS_SUCCESS ELSE DC_STATUS_INVALIDARGS]
reefnet_sensus_device_set_fingerprint(m, data) ==
    LET size == Len(data) IN
    IF size # 0 /\ size # 4 THEN [m EXCEPT !.rc = DC_STATUS_INVALIDARGS]
    ELSE [m EXCEPT !.dev.timestamp = IF size # 0 THEN array_uint32_le(data) ELSE 0,
                   !.rc = DC_STATUS_SUCCESS]

\* Variant of HandshakeHeaderOk that tests the first byte only.
HandshakeHeaderOk_first(handshake) == ~(handshake[1] # 79)
\* Variant of HandshakeHeaderOk that accepts every reply.
HandshakeHeaderOk_any(handshake) == TRUE
\* The header test of the handshake reply: 'O' is 79, 'K' is 75.
HandshakeHeaderOk(handshake) == ~(handshake[1] # 79 \/ handshake[2] # 75)

\* Variant of HandshakeDevinfo that takes the model and firmware bytes as
\* they are.
HandshakeDevinfo_raw(handshake) ==
    [model |-> handshake[3], firmware |-> handshake[4],
     serial |-> array_uint16_le(SubSeq(handshake, 7, 8))]
\* The device info of a handshake (lines 241-244); handshake[0] of the
\* source is handshake[1] here, and 48 is '0'.
HandshakeDevinfo(handshake) ==
    [model |-> handshake[3] - 48, firmware |-> handshake[4] - 48,
     serial |-> array_uint16_le(SubSeq(handshake, 7, 8))]

\* Variant of HandshakeEvents that emits the device info before the clock.
HandshakeEvents_devinfo_first(m, handshake) ==
    LET m4 == device_event_emit(m, DC_EVENT_DEVINFO,
                  HandshakeDevinfo(handshake))
        m5 == device_event_emit(m4, DC_EVENT_CLOCK,
                  [systime |-> m.dev.systime, devtime |-> m.dev.devtime])
    IN device_event_emit(m5, DC_EVENT_VENDOR,
                  [data |-> m5.dev.handshake, size |-> SZ_HANDSHAKE])
\* The three events of the handshake (lines 234-251).
HandshakeEvents(m, handshake) ==
    LET m4 == device_event_emit(m, DC_EVENT_CLOCK,
                  [systime |-> m.dev.systime, devtime |-> m.dev.devtime])
        m5 == device_event_emit(m4, DC_EVENT_DEVINFO,
                  HandshakeDevinfo(handshake))
    IN device_event_emit(m5, DC_EVENT_VENDOR,
                  [data |-> m5.dev.handshake, size |-> SZ_HANDSHAKE])

reefnet_sensus_handshake(m, env) ==
    LET m1 == dc_iostream_write(m, <<10>>, env.w1) IN
    IF env.w1 # DC_STATUS_SUCCESS THEN [m1 EXCEPT !.rc = env.w1]
    ELSE
      LET handshake == IF env.r1 = DC_STATUS_SUCCESS THEN env.hs ELSE Rep(0, SZ_HANDSHAKE + 2)
          m2 == dc_iostream_read(m1, SZ_HANDSHAKE + 2, env.r1, handshake)
      IN
      IF env.r1 # DC_STATUS_SUCCESS THEN [m2 EXCEPT !.rc = env.r1]
      ELSE IF ~HandshakeHeaderOk(handshake) THEN [m2 EXCEPT !.rc = DC_STATUS_PROTOCOL]
      ELSE
        LET m3 == [m2 EXCEPT !.dev.waiting = 1,
                             !.dev.systime = env.now,
                             !.dev.devtime = array_uint32_le(SubSeq(handshake, 9, 12)),
                             !.dev.handshake = SubSeq(handshake, 3, SZ_HANDSHAKE + 2)]
            m6 == HandshakeEvents(m3, handshake)
            m7 == dc_iostream_sleep(m6, 10)
        IN [m7 EXCEPT !.rc = DC_STATUS_SUCCESS]

\* Variant of ChunkLen that asks for all the rest at once.
ChunkLen_rest(rest) == rest
\* The length of one read: the rest of the answer, 128 bytes at most.
ChunkLen(rest) == IF rest > 128 THEN 128 ELSE rest

\* Variant of DumpProgress that leaves checksum and trailer out of the maximum.
DumpProgress_short(szmem) == [current |-> 0, maximum |-> 4 + szmem]
\* progress.maximum = 4 + SZ_MEMORY + 2 + 3, on EVENT_PROGRESS_INITIALIZER.
DumpProgress(szmem) == [current |-> 0, maximum |-> 4 + szmem + 2 + 3]

\* Variant of ReadChunk that reads once more when a read fails, and returns
\* DC_STATUS_IO when that fails too.
ReadChunk_retry(m, status, total, nbytes, progress) ==
    LET len == ChunkLen(total - nbytes)
        m1 == dc_iostream_read(m, len, status, <<>>)
    IN IF status # DC_STATUS_SUCCESS
       THEN [m |-> [dc_iostream_read(m1, len, status, <<>>) EXCEPT !.rc = DC_STATUS_IO],
             nbytes |-> nbytes, progress |-> progress]
       ELSE LET p2 == [progress EXCEPT !.current = @ + len]
            IN [m |-> [device_event_emit(m1, DC_EVENT_PROGRESS, p2)
                          EXCEPT !.rc = DC_STATUS_SUCCESS],
                nbytes |-> nbytes + len, progress |-> p2]
\* One turn of the read loop of the dump (lines 296-314): a read of at most
\* 128 bytes that the transport answers with status, then a progress event.
\* The result is the machine and the loop's nbytes and progress.
ReadChunk(m, status, total, nbytes, progress) ==
    LET len == ChunkLen(total - nbytes)
        m1 == dc_iostream_read(m, len, status, <<>>)
    IN IF status # DC_STATUS_SUCCESS
       THEN [m |-> [m1 EXCEPT !.rc = status], nbytes |-> nbytes, progress |-> progress]
       ELSE LET p2 == [progress EXCEPT !.current = @ + len]
            IN [m |-> [device_event_emit(m1, DC_EVENT_PROGRESS, p2)
                          EXCEPT !.rc = DC_STATUS_SUCCESS],
                nbytes |-> nbytes + len, progress |-> p2]

\* The read loop; read number env.failAt fails with env.failSt.
RECURSIVE ReadAnswer(_, _, _, _, _, _)
ReadAnswer(m, env, total, nbytes, progress, k) ==
    IF ~(nbytes < total) THEN [m EXCEPT !.rc = DC_STATUS_SUCCESS]
    ELSE
      LET r == ReadChunk(m, IF env.failAt = k THEN env.failSt ELSE DC_STATUS_SUCCESS,
                         total, nbytes, progress)
      IN IF r.m.rc # DC_STATUS_SUCCESS THEN r.m
         ELSE ReadAnswer(r.m, env, total, r.nbytes, r.progress, k + 1)

\* memcmp (answer, "DATA", 4) and memcmp (answer + sizeof (answer) - 3, "END", 3)
AnswerFramed(answer) ==
    /\ SubSeq(answer, 1, 4) = <<68, 65, 84, 65>>
    /\ SubSeq(answer, Len(answer) - 2, Len(answer)) = <<69, 78, 68>>

\* crc == ccrc (lines 324-326)
ChecksumOk(answer, szmem) ==
    array_uint16_le(SubSeq(answer, 4 + szmem + 1, 4 + szmem + 2))
        = checksum_add_uint16(SubSeq(answer, 5, 4 + szmem), 0)

\* Variant of DumpCommand that leaves the waiting state before it writes.
DumpCommand_early(m, env) ==
    LET m3 == dc_iostream_write([m EXCEPT !.dev.waiting = 0], <<64>>, env.w2)
    IN [m3 EXCEPT !.rc = env.w2]
\* The dump command (lines 282-291): the write of 0x40, and waiting = 0 when
\* it was written.
DumpCommand(m, env) ==
    LET m3 == dc_iostream_write(m, <<64>>, env.w2) IN
    IF env.w2 # DC_STATUS_SUCCESS THEN [m3 EXCEPT !.rc = env.w2]
    ELSE [m3 EXCEPT !.dev.waiting = 0, !.rc = DC_STATUS_SUCCESS]

\* The dump up to the read loop (lines 266-293): reserve, first progress
\* event, handshake, dump command.
DumpBegin(m, env, szmem) ==
    IF ~env.reserve THEN [m EXCEPT !.rc = DC_STATUS_NOMEMORY]
    ELSE
      LET m1 == device_event_emit(m, DC_EVENT_PROGRESS, DumpProgress(szmem))
          m2 == reefnet_sensus_handshake(m1, env)
      IN
      IF m2.rc # DC_STATUS_SUCCESS THEN m2
      ELSE DumpCommand(m2, env)

\* The dump after the read loop (lines 316-333): framing, checksum, append.
DumpEnd(m, answer, szmem) ==
    LET m1 == [m EXCEPT !.answer = answer] IN
    IF ~AnswerFramed(answer) THEN [m1 EXCEPT !.rc = DC_STATUS_PROTOCOL]
    ELSE IF ~ChecksumOk(answer, szmem) THEN [m1 EXCEPT !.rc = DC_STATUS_PROTOCOL]
    ELSE [m1 EXCEPT !.buffer = @ \o SubSeq(answer, 5, 4 + szmem),
                    !.rc = DC_STATUS_SUCCESS]

reefnet_sensus_device_dump(m, env, szmem) ==
    LET m1 == DumpBegin(m, env, szmem) IN
    IF m1.rc # DC_STATUS_SUCCESS THEN m1
    ELSE LET m2 == ReadAnswer(m1, env, 4 + szmem + 2 + 3, 0, DumpProgress(szmem), 1) IN
         IF m2.rc # DC_STATUS_SUCCESS THEN m2
         ELSE DumpEnd(m2, env.answer, szmem)

\* Variant of dc_device_dump without the dc_buffer_clear.
dc_device_dump_noclear(m, env, szmem) == reefnet_sensus_device_dump(m, env, szmem)
\* dc_device_dump: dc_buffer_clear, then the dump of the backend.
dc_device_dump(m, env, szmem) ==
    reefnet_sensus_device_dump([m EXCEPT !.buffer = <<>>], env, szmem)

\* The end of the foreach (lines 350-355): m1 is the machine after the dump
\* and r the result of the extraction over the scratch buffer.
ForeachEnd(m, m1, r) ==
    LET s == ExtractDivesEffect([dev |-> m1.dev, image |-> m1.buffer], r)
    IN [m1 EXCEPT !.rc = r.rc, !.visits = r.visits, !.dev = s.dev,
                  !.scratch = s.image,
                  !.buf_frees = @ + 1, !.buffer = m.buffer]

\* Variant of ForeachAfterDump that returns from a failed dump without
\* releasing the scratch buffer.
ForeachAfterDump_leak(m, m1, cb) ==
    IF m1.rc # DC_STATUS_SUCCESS
    THEN [m1 EXCEPT !.buffer = m.buffer]
    ELSE ForeachEnd(m, m1,
             reefnet_sensus_extract_dives(m1.buffer, Len(m1.buffer), TRUE,
                                          m1.dev.timestamp, cb))
\* The foreach after its dump (lines 345-355), m1 being the machine after it.
ForeachAfterDump(m, m1, cb) ==
    IF m1.rc # DC_STATUS_SUCCESS
    THEN [m1 EXCEPT !.buf_frees = @ + 1, !.buffer = m.buffer]
    ELSE ForeachEnd(m, m1,
             reefnet_sensus_extract_dives(m1.buffer, Len(m1.buffer), TRUE,
                                          m1.dev.timestamp, cb))

\* reefnet_sensus_device_foreach, on a scratch buffer of its own.
reefnet_sensus_device_foreach(m, env, szmem) ==
    IF ~env.bufnew THEN [m EXCEPT !.rc = DC_STATUS_NOMEMORY]
    ELSE ForeachAfterDump(m,
             reefnet_sensus_device_dump(
                 [m EXCEPT !.buffer = <<>>, !.buf_news = @ + 1], env, szmem),
             env.cb)

\* dc_device_foreach dispatches to the foreach of the backend.
dc_device_foreach(m, env, szmem) == reefnet_sensus_device_foreach(m, env, szmem)

\* dc_device_set_fingerprint dispatches to the backend.
dc_device_set_fingerprint(m, data) == reefnet_sensus_device_set_fingerprint(m, data)

dc_device_set_events(m, events, callback) ==
    [m EXCEPT !.dev.event_mask = events, !.dev.event_callback = callback,
              !.rc = DC_STATUS_SUCCESS]

(***************************************************************************)
(* LibDCBridge/configuredc.c: the bridge.                                  *)
(***************************************************************************)
Called(m, fn, rc) == [m EXCEPT !.calls = Append(@, [fn |-> fn, rc |-> rc])]

close_device_data(m, env) ==
    LET m1 == IF m.data.device
              THEN LET c == dc_device_close(m, env)
                   IN [Called(c, "dc_device_close", c.rc) EXCEPT !.data.device = FALSE]
              ELSE m
        m2 == IF m1.data.iostream
              THEN [Called(dc_iostream_close(m1, env.bc), "dc_iostream_close", env.bc)
                       EXCEPT !.data.iostream = FALSE]
              ELSE m1
        m3 == IF m2.data.context
              THEN [Called(m2, "dc_context_free", "void")
                       EXCEPT !.res.ctx_frees = @ + 1, !.data.context = FALSE]
              ELSE m2
    IN [m3 EXCEPT !.data.descriptor = FALSE, !.data.descid = 0, !.rc = "void"]

\* ble_packet_open: createBLEObject, connectToBLEDevice, ble_iostream_create.
ble_packet_open(m, env) ==
    IF env.ble = "nocreate" THEN [m EXCEPT !.rc = DC_STATUS_NOMEMORY]
    ELSE LET m1 == [m EXCEPT !.io.ble_news = @ + 1] IN
         IF env.ble = "noconnect"
         THEN [m1 EXCEPT !.io.ble_frees = @ + 1, !.rc = DC_STATUS_IO]
         ELSE IF env.ble = "nostream"
         THEN [m1 EXCEPT !.io.ble_frees = @ + 1, !.rc = DC_STATUS_NOMEMORY]
         ELSE [m1 EXCEPT !.io.state = "open", !.data.iostream = TRUE,
                         !.rc = DC_STATUS_SUCCESS]

\* dc_device_open, for a descriptor of the reefnet sensus family; *out = device.
dc_device_open(m, env) ==
    LET m1 == reefnet_sensus_device_open(m, env)
    IN [m1 EXCEPT !.data.device = (m1.rc = DC_STATUS_SUCCESS)]

\* descid tells which descriptor data->descriptor points to (0: none); the
\* descriptors are numbered in the order of their creation.
NoData ==
    [device |-> FALSE, iostream |-> FALSE, context |-> FALSE, descriptor |-> FALSE,
     descid |-> 0]

open_ble_device_with_descriptor(m, env) ==
    LET m0 == [m EXCEPT !.data = NoData] IN
    IF ~env.ctx THEN Called([m0 EXCEPT !.rc = DC_STATUS_NOMEMORY], "dc_context_new", DC_STATUS_NOMEMORY)
    ELSE
      LET m1 == [Called(m0, "dc_context_new", DC_STATUS_SUCCESS)
                    EXCEPT !.data.context = TRUE, !.res.ctx_news = @ + 1]
          m2 == ble_packet_open(m1, env)
      IN
      IF m2.rc # DC_STATUS_SUCCESS
      THEN [close_device_data(Called(m2, "ble_packet_open", m2.rc), env) EXCEPT !.rc = m2.rc]
      ELSE
        LET m3 == dc_device_open(Called(m2, "ble_packet_open", m2.rc), env) IN
        IF m3.rc # DC_STATUS_SUCCESS
        THEN [close_device_data(Called(m3, "dc_device_open", m3.rc), env) EXCEPT !.rc = m3.rc]
        ELSE
          LET m4 == dc_device_set_events(Called(m3, "dc_device_open", m3.rc),
                        {DC_EVENT_DEVINFO, DC_EVENT_PROGRESS, DC_EVENT_CLOCK}, TRUE)
          IN [Called(m4, "dc_device_set_events", m4.rc)
                 EXCEPT !.data.descriptor = TRUE, !.data.descid = env.desc,
                        !.rc = DC_STATUS_SUCCESS]

(***************************************************************************)
(* Inputs: what the device holds and what the environment answers.         *)
(***************************************************************************)
\* The sample bytes of a dive: one depth byte per sample, and one temperature
\* byte (80) after the depth byte of samples 0, 6, 12, ...
RECURSIVE Samples(_, _)
Samples(depths, n) ==
    IF depths = <<>> THEN <<>>
    ELSE (IF n % 6 = 0 THEN <<Head(depths), 80>> ELSE <<Head(depths)>>)
         \o Samples(Tail(depths), n + 1)

Header(ts) == <<255, 0>> \o ts \o <<254>>
\* A complete dive: ndeep samples at depth 64, then 17 at depth 0.
Dive(ts, ndeep) == Header(ts) \o Samples(Rep(64, ndeep) \o Rep(0, 17), 0)
\* A dive that is cut short: 5 near-surface samples and no more.
Truncated(ts) == Header(ts) \o Samples(Rep(64, 2) \o Rep(0, 5), 0)

TS0 == <<0, 0, 0, 0>>
TS1 == <<1, 0, 0, 0>>
TS2 == <<2, 0, 0, 0>>
TS3 == <<0, 0, 0, 1>>

Pad(bytes, fill, n) == bytes \o Rep(fill, n - Len(bytes))

ImgEmpty == Pad(<<>>, 0, MemSize)
ImgFF == Pad(<<>>, 255, MemSize)
ImgOne == Pad(Rep(64, 3) \o Dive(TS2, 3), 0, MemSize)
ImgThree == Pad(Dive(TS1, 2) \o Dive(TS2, 1) \o Dive(TS3, 7), 0, MemSize)
ImgOldTruncated == Pad(Truncated(TS1) \o Dive(TS2, 1) \o Dive(TS3, 0), 0, MemSize)
ImgNewTruncated == Pad(Dive(TS1, 2) \o Truncated(TS2), 64, MemSize)
ImgZeroStamp == Pad(Dive(TS1, 2) \o Dive(TS0, 1) \o Dive(TS2, 0), 0, MemSize)

Images == {ImgEmpty, ImgFF, ImgOne, ImgThree, ImgOldTruncated,
           ImgNewTruncated, ImgZeroStamp}

LE16(v) == <<v % 256, v \div 256>>
\* The reply the device sends for a memory image: "DATA", the image, its
\* checksum, "END".
Reply(img) ==
    <<68, 65, 84, 65>> \o img \o LE16(checksum_add_uint16(img, 0)) \o <<69, 78, 68>>
\* A reply with byte i (1-based) replaced by b.
Corrupt(reply, i, b) == [reply EXCEPT ![i] = b]

BadReplies ==
    { Corrupt(Reply(ImgOne), 4, 66),
      Corrupt(Reply(ImgOne), Len(Reply(ImgOne)), 69),
      Corrupt(Reply(ImgOne), 4 + 10, 65),
      Corrupt(Reply(ImgOne), 4 + MemSize, 1),
      Corrupt(Reply(ImgThree), 4 + MemSize + 2, 1),
      Corrupt(Reply(ImgFF), 4 + MemSize + 2, 1) }

Answers == {Reply(img) : img \in Images} \cup BadReplies

\* Handshake replies: "OK", model '3', firmware '1', serial 0x1234, clock 5.
HsGood == <<79, 75, 51, 49, 0, 0, 52, 18, 5, 0, 0, 0>>
HsBad == {[HsGood EXCEPT ![1] = 75], [HsGood EXCEPT ![2] = 79]}

Fingerprints == {<<>>, TS1, TS3, <<1, 2, 3>>}

Callbacks == [null : {FALSE}, stopAt : 0..MaxStop] \cup {[null |-> TRUE, stopAt |-> 0]}

\* The environment of one call, when nothing fails.
EnvOk(answer) ==
    [alloc |-> TRUE, cfg |-> DC_STATUS_SUCCESS, tmo |-> DC_STATUS_SUCCESS,
     ctx |-> TRUE, ble |-> "ok", ctx0 |-> TRUE, find |-> "first", desc |-> 1,
     reserve |-> TRUE, bufnew |-> TRUE,
     w1 |-> DC_STATUS_SUCCESS, r1 |-> DC_STATUS_SUCCESS, hs |-> HsGood, now |-> 1000,
     w2 |-> DC_STATUS_SUCCESS, failAt |-> 0, failSt |-> DC_STATUS_SUCCESS,
     answer |-> answer, cb |-> [null |-> FALSE, stopAt |-> 0],
     wc |-> DC_STATUS_SUCCESS, bc |-> DC_STATUS_SUCCESS]

\* The number of reads a complete answer of total bytes takes.
NReads(total) == (total + 127) \div 128

\* The environments of a dump: each failure point once, and each answer.
DumpEnvs(szmem, answers, some) ==
    {[EnvOk(some) EXCEPT !.reserve = FALSE]}
    \cup {[EnvOk(some) EXCEPT !.w1 = e] : e \in TransportErrors}
    \cup {[EnvOk(some) EXCEPT !.r1 = e] : e \in TransportErrors}
    \cup {[EnvOk(some) EXCEPT !.hs = h] : h \in HsBad}
    \cup {[EnvOk(some) EXCEPT !.hs = h, !.w2 = DC_STATUS_IO] : h \in HsBad}
    \cup {[EnvOk(some) EXCEPT !.w2 = e] : e \in TransportErrors}
    \cup {[EnvOk(some) EXCEPT !.failAt = k, !.failSt = e] :
             k \in 1..NReads(4 + szmem + 2 + 3), e \in TransportErrors}
    \cup {EnvOk(a) : a \in answers}

ForeachEnvs(szmem, bad, some) ==
    {[EnvOk(some) EXCEPT !.bufnew = FALSE]}
    \cup DumpEnvs(szmem, bad, some)
    \cup {[EnvOk(Reply(i)) EXCEPT !.cb = c] : i \in Images, c \in Callbacks}

OpenEnvs ==
    {[EnvOk(<<>>) EXCEPT !.alloc = FALSE]}
    \cup {[EnvOk(<<>>) EXCEPT !.cfg = e] : e \in TransportErrors}
    \cup {[EnvOk(<<>>) EXCEPT !.tmo = e] : e \in TransportErrors}
    \cup {EnvOk(<<>>)}

\* The BLE backend has no configure: dc_iostream_configure succeeds on it.
BleOpenEnvs ==
    {[EnvOk(<<>>) EXCEPT !.ctx = FALSE]}
    \cup {[EnvOk(<<>>) EXCEPT !.ble = b] : b \in {"nocreate", "noconnect", "nostream"}}
    \cup {e \in OpenEnvs : e.cfg = DC_STATUS_SUCCESS}

CloseEnvs ==
    {[EnvOk(<<>>) EXCEPT !.wc = e, !.bc = b] :
        e \in TransportErrors \cup {DC_STATUS_SUCCESS}, b \in {DC_STATUS_SUCCESS, DC_STATUS_IO}}

MainDumpEnvs == DumpEnvs(MemSize, {Reply(ImgOne), Reply(ImgFF)} \cup BadReplies, Reply(ImgEmpty))
MainForeachEnvs == ForeachEnvs(MemSize, BadReplies, Reply(ImgEmpty))

EventConfigs ==
    {[events |-> {}, callback |-> TRUE],
     [events |-> {DC_EVENT_PROGRESS, DC_EVENT_VENDOR}, callback |-> TRUE],
     [events |-> {DC_EVENT_PROGRESS, DC_EVENT_VENDOR}, callback |-> FALSE]}

\* Full-size replies, for the dump at its real size.
WireGood ==
    {Reply(Pad(Dive(TS1, 2), 0, SZ_MEMORY)), Reply(Pad(<<>>, 255, SZ_MEMORY))}
WireAnswers ==
    WireGood
    \cup {Corrupt(Reply(Pad(Dive(TS1, 2), 0, SZ_MEMORY)), 4 + SZ_MEMORY + 1, 7),
          Corrupt(Reply(Pad(Dive(TS1, 2), 0, SZ_MEMORY)), 4 + SZ_MEMORY, 1),
          Corrupt(Reply(Pad(<<>>, 255, SZ_MEMORY)), 4 + 1, 254),
          Corrupt(Reply(Pad(<<>>, 255, SZ_MEMORY)), 1, 100),
          Corrupt(Reply(Pad(<<>>, 255, SZ_MEMORY)), 4 + SZ_MEMORY + 2 + 3, 100)}

\* Synthetic dives for the extraction on its own: a header, then ndeep
\* samples at depth 16 and nsurf samples at depth 15, with the temperature
\* bytes of the sample layout.
MaxDeep == 2
SynDive(d) == Header(d.ts) \o Samples(Rep(16, d.ndeep) \o Rep(15, d.nsurf), 0)

TwoDiveShapes == [ts : {TS0, TS1, TS2, TS3}, ndeep : 0..MaxDeep, nsurf : {17, 18}]
LogShapes == [ts : {TS1, TS2, TS3}, ndeep : {1}, nsurf : {17}]

\* A dive that is cut short after 5 near-surface samples, and a whole one.
CutShort == [ts |-> TS2, ndeep |-> 2, nsurf |-> 5]
Whole == [ts |-> TS1, ndeep |-> 1, nsurf |-> 17]

\* Buffers of two dives of every shape, dive logs of three and four dives
\* stamped in every order, and two logs with a dive that has no end.
DiveLogs ==
    [1..2 -> TwoDiveShapes] \cup [1..3 -> LogShapes] \cup [1..4 -> LogShapes]
    \cup {<<CutShort, Whole>>, <<Whole, CutShort>>}

\* The buffer that holds the dives of shapes back to back, lowest address first.
RECURSIVE ImageOf(_)
ImageOf(shapes) ==
    IF shapes = <<>> THEN <<>> ELSE SynDive(Head(shapes)) \o ImageOf(Tail(shapes))

\* The session an extraction is given: one that has completed a dump, with
\* its cursor at cursor.
SessionAfterDump(cursor) ==
    [NewDevice EXCEPT !.timestamp = cursor, !.systime = 1000, !.devtime = 5,
                      !.handshake = SubSeq(HsGood, 3, SZ_HANDSHAKE + 2),
                      !.devinfo = [model |-> 3, firmware |-> 1, serial |-> 4660],
                      !.clock = [devtime |-> 5, systime |-> 1000]]

(***************************************************************************)
(* State.                                                                  *)
(***************************************************************************)
VARIABLES
    owner,    \* who opened the session: "none", "caller" or "bridge"
    dev,      \* the session
    data,     \* the bridge's device_data_t
    io,       \* the transport
    res,      \* allocation counters
    buffer,   \* the caller's dc_buffer_t
    op,       \* the last call: its name, status and what it did
    wire,     \* the position of a dump that is followed read by read
    rd,       \* the position of a device_dump_read
    ex        \* an extraction over a buffer of the caller, and its result

vars == <<owner, dev, data, io, res, buffer, op, wire, rd, ex>>

\* traffic and nops are kept by the specification SpecProtocol alone: the
\* commands written and the handshake replies read over the lifetime of the
\* session, each with the number and the name of the call that made it.
NoIo ==
    [state |-> "none", closes |-> 0, ble_news |-> 0, ble_frees |-> 0, stream_frees |-> 0,
     traffic |-> <<>>, nops |-> 0]
NoRes ==
    [ctx_news |-> 0, ctx_frees |-> 0, dev_allocs |-> 0, dev_frees |-> 0,
     desc_news |-> 0, desc_freed |-> {}]
NoProgress == [current |-> 0, maximum |-> 0]
NoWire == [pc |-> "off", nbytes |-> 0, progress |-> NoProgress]
\* turn is the parity of the number of reads the call has issued.
NoRead == [pc |-> "off", ndebug |-> FALSE, size |-> 0, blocksize |-> 0, nbytes |-> 0,
           progress |-> NoProgress, emitted |-> FALSE, assert_failed |-> FALSE,
           rc |-> DC_STATUS_SUCCESS, turn |-> 0]

\* The locals of reefnet_sensus_extract_dives.
NoLoop ==
    [current |-> 0, previous |-> 0, offset |-> 0, nsamples |-> 0, count |-> 0,
     found |-> FALSE]

NoExtract ==
    [pc |-> "off", shapes |-> <<>>, cb |-> [null |-> TRUE, stopAt |-> 0],
     image0 |-> <<>>, dev0 |-> NoDevice, image |-> <<>>, dev |-> NoDevice,
     rc |-> DC_STATUS_SUCCESS, visits |-> <<>>, runs |-> 0,
     first |-> [rc |-> DC_STATUS_SUCCESS, visits |-> <<>>],
     examined |-> {}, reads |-> {}, walks |-> <<>>, loop |-> NoLoop]

\* The machine a call starts on.
Machine ==
    [dev |-> dev, data |-> data, io |-> io, res |-> res, buffer |-> buffer,
     iolog |-> <<>>, events |-> <<>>, delivered |-> <<>>, calls |-> <<>>,
     visits |-> <<>>, scratch |-> <<>>, answer |-> <<>>, arg |-> <<>>, out |-> FALSE,
     buf_news |-> 0, buf_frees |-> 0, assert_failed |-> FALSE, rc |-> DC_STATUS_SUCCESS]

\* The machine of a call that is under way: what it has done so far is in op.
Underway ==
    [Machine EXCEPT !.iolog = op.iolog, !.events = op.events,
                    !.delivered = op.delivered, !.assert_failed = op.assert_failed]

NoCallback == [null |-> TRUE, stopAt |-> 0]

Observed(name, r, pre, cb) ==
    [name |-> name, rc |-> r.rc, pre |-> pre,
     iolog |-> r.iolog, events |-> r.events, delivered |-> r.delivered,
     calls |-> r.calls, visits |-> r.visits, scratch |-> r.scratch,
     answer |-> r.answer, buf_news |-> r.buf_news, buf_frees |-> r.buf_frees,
     assert_failed |-> r.assert_failed, cb |-> cb, arg |-> r.arg, out |-> r.out]

\* What a call finds on entry.
Pre ==
    [state |-> dev.state, waiting |-> dev.waiting, timestamp |-> dev.timestamp,
     buflen |-> Len(buffer), closes |-> io.closes, dev_frees |-> res.dev_frees,
     dev |-> dev]

NoPre ==
    [state |-> "none", waiting |-> 0, timestamp |-> 0,
     buflen |-> 0, closes |-> 0, dev_frees |-> 0, dev |-> NoDevice]

Idle == Observed("idle", [Machine EXCEPT !.rc = "void"], NoPre, NoCallback)

Store(r) ==
    /\ dev' = r.dev
    /\ data' = r.data
    /\ io' = r.io
    /\ res' = r.res
    /\ buffer' = r.buffer

Commit(name, r, cb) ==
    /\ Store(r)
    /\ op' = Observed(name, r, Pre, cb)
    /\ UNCHANGED <<wire, rd, ex>>

Init ==
    /\ owner = "none"
    /\ dev = NoDevice
    /\ data = NoData
    /\ io = NoIo
    /\ res = NoRes
    /\ buffer = <<>>
    /\ op = Idle
    /\ wire = NoWire
    /\ rd = NoRead
    /\ ex = NoExtract

(***************************************************************************)
(* Actions: one per entry point.  The application makes one call at a      *)
(* time: a call starts when op is idle, and Proceed is the application     *)
(* taking the result of the last call.                                     *)
(***************************************************************************)
\* A caller opens a session on a transport it opened itself.
Open ==
    /\ owner = "none"
    /\ op.name = "idle"
    /\ \E env \in OpenEnvs :
         Commit("reefnet_sensus_device_open",
                reefnet_sensus_device_open([Machine EXCEPT !.io.state = "open"], env),
                NoCallback)
    /\ owner' = "caller"

\* The bridge opens context, transport and session.
OpenBle ==
    /\ owner = "none"
    /\ op.name = "idle"
    /\ \E env \in BleOpenEnvs :
         Commit("open_ble_device_with_descriptor",
                open_ble_device_with_descriptor(Machine, env), NoCallback)
    /\ owner' = "bridge"

SetFingerprint ==
    /\ dev.state = "open"
    /\ op.name = "idle"
    /\ wire.pc = "off"
    /\ \E fp \in Fingerprints :
         Commit("dc_device_set_fingerprint",
                dc_device_set_fingerprint([Machine EXCEPT !.arg = fp], fp), NoCallback)
    /\ UNCHANGED owner

SetEvents ==
    /\ dev.state = "open"
    /\ owner = "caller"
    /\ op.name = "idle"
    /\ \E c \in EventConfigs :
         Commit("dc_device_set_events",
                dc_device_set_events(Machine, c.events, c.callback), NoCallback)
    /\ UNCHANGED owner

Dump ==
    /\ dev.state = "open"
    /\ op.name = "idle"
    /\ wire.pc = "off"
    /\ \E env \in MainDumpEnvs :
         Commit("dc_device_dump", dc_device_dump(Machine, env, MemSize), NoCallback)
    /\ UNCHANGED owner

Foreach ==
    /\ dev.state = "open"
    /\ op.name = "idle"
    /\ wire.pc = "off"
    /\ \E env \in MainForeachEnvs :
         Commit("dc_device_foreach", dc_device_foreach(Machine, env, MemSize), env.cb)
    /\ UNCHANGED owner

\* The caller closes the session.
DeviceClose ==
    /\ dev.state = "open"
    /\ owner = "caller"
    /\ op.name = "idle"
    /\ wire.pc = "off"
    /\ \E env \in CloseEnvs :
         Commit("dc_device_close", dc_device_close(Machine, env), NoCallback)
    /\ UNCHANGED owner

\* The caller closes the transport it opened, once the session is gone.
IostreamClose ==
    /\ owner = "caller"
    /\ dev.state # "open"
    /\ io.state = "open"
    /\ op.name = "idle"
    /\ \E rc \in {DC_STATUS_SUCCESS, DC_STATUS_IO} :
         Commit("dc_iostream_close", [dc_iostream_close(Machine, rc) EXCEPT !.rc = rc],
                NoCallback)
    /\ UNCHANGED owner

\* The bridge tears down whatever device_data still holds.
CloseDeviceData ==
    /\ owner = "bridge"
    /\ op.name = "idle"
    /\ \E env \in CloseEnvs :
         Commit("close_device_data", close_device_data(Machine, env), NoCallback)
    /\ UNCHANGED owner

\* The application takes the result of the last call.
Proceed ==
    /\ op.name # "idle"
    /\ wire.pc \in {"off", "idle"}
    /\ op' = Idle
    /\ UNCHANGED <<owner, dev, data, io, res, buffer, wire, rd, ex>>

Next ==
    \/ Open
    \/ OpenBle
    \/ SetFingerprint
    \/ SetEvents
    \/ Dump
    \/ Foreach
    \/ DeviceClose
    \/ IostreamClose
    \/ CloseDeviceData
    \/ Proceed

Spec == Init /\ [][Next]_vars

(***************************************************************************)
(* The dump at its real size (SZ_MEMORY bytes of memory, 32777 bytes of    *)
(* answer), followed read by read.  The session is open and idle.          *)
(***************************************************************************)
InitWire ==
    /\ owner = "caller"
    /\ dev = NewDevice
    /\ data = NoData
    /\ io = [NoIo EXCEPT !.state = "open"]
    /\ res = [NoRes EXCEPT !.dev_allocs = 1]
    /\ buffer = <<>>
    /\ op = Idle
    /\ wire = [NoWire EXCEPT !.pc = "idle"]
    /\ rd = NoRead
    /\ ex = NoExtract

WireBeginEnvs ==
    {e \in DumpEnvs(SZ_MEMORY, {<<>>}, <<>>) : e.failAt = 0}

\* dc_device_dump up to the read loop.
WireBegin ==
    /\ wire.pc = "idle"
    /\ op.name = "idle"
    /\ dev.state = "open"
    /\ \E env \in WireBeginEnvs :
         LET r == DumpBegin([Machine EXCEPT !.buffer = <<>>], env, SZ_MEMORY) IN
         /\ Store(r)
         /\ op' = Observed("dc_device_dump", r, Pre, NoCallback)
         /\ wire' = IF r.rc = DC_STATUS_SUCCESS
                    THEN [pc |-> "reading", nbytes |-> 0, progress |-> DumpProgress(SZ_MEMORY)]
                    ELSE [NoWire EXCEPT !.pc = "idle"]
    /\ UNCHANGED <<owner, rd, ex>>

\* One turn of the read loop.
WireRead ==
    /\ wire.pc = "reading"
    /\ wire.nbytes < 4 + SZ_MEMORY + 2 + 3
    /\ \E status \in {DC_STATUS_SUCCESS} \cup TransportErrors :
         LET r == ReadChunk(Underway, status, 4 + SZ_MEMORY + 2 + 3,
                            wire.nbytes, wire.progress) IN
         /\ Store(r.m)
         /\ op' = Observed(op.name, r.m, op.pre, op.cb)
         /\ wire' = IF status = DC_STATUS_SUCCESS
                    THEN [pc |-> "reading", nbytes |-> r.nbytes, progress |-> r.progress]
                    ELSE [NoWire EXCEPT !.pc = "idle"]
    /\ UNCHANGED <<owner, rd, ex>>

\* The end of the read loop: the answer is complete and is verified.
WireEnd ==
    /\ wire.pc = "reading"
    /\ ~(wire.nbytes < 4 + SZ_MEMORY + 2 + 3)
    /\ \E answer \in WireAnswers :
         LET r == DumpEnd(Underway, answer, SZ_MEMORY) IN
         /\ Store(r)
         /\ op' = Observed(op.name, r, op.pre, op.cb)
         /\ wire' = [NoWire EXCEPT !.pc = "idle"]
    /\ UNCHANGED <<owner, rd, ex>>

\* The application registers a cancel callback; its flag is down.
SetCancel ==
    /\ dev.state = "open"
    /\ op.name = "idle"
    /\ ~dev.cancel_callback
    /\ Commit("dc_device_set_cancel", dc_device_set_cancel(Machine, TRUE, 0), NoCallback)
    /\ UNCHANGED owner

\* The application raises the flag of its cancel callback, between two calls
\* or while a dump has at least two reads to go.
RaiseCancel ==
    /\ dev.state = "open"
    /\ dev.cancel_callback
    /\ dev.cancel_userdata = 0
    /\ \/ wire.pc = "idle" /\ op.name = "idle"
       \/ wire.pc = "reading" /\ wire.nbytes + 2 * 128 <= 4 + SZ_MEMORY + 2 + 3
    /\ dev' = [dev EXCEPT !.cancel_userdata = 1]
    /\ UNCHANGED <<owner, data, io, res, buffer, op, wire, rd, ex>>

NextWire ==
    \/ WireBegin
    \/ WireRead
    \/ WireEnd
    \/ SetEvents
    \/ SetCancel
    \/ RaiseCancel
    \/ Proceed

SpecWire == InitWire /\ [][NextWire]_vars

(***************************************************************************)
(* device.c: device_dump_read, followed block by block.                    *)
(***************************************************************************)
\* The build either keeps the assertions (ndebug FALSE) or compiles them out.
InitRead ==
    /\ owner = "caller"
    /\ dev = NewDevice
    /\ data = NoData
    /\ io = [NoIo EXCEPT !.state = "open"]
    /\ res = [NoRes EXCEPT !.dev_allocs = 1]
    /\ buffer = <<>>
    /\ op = Idle
    /\ wire = NoWire
    /\ \E b \in BOOLEAN : rd = [NoRead EXCEPT !.pc = "idle", !.ndebug = b]
    /\ ex = NoExtract

\* device_event_emit of one progress event from device_dump_read; an
\* assertion that fails ends the process when assertions are compiled in.
EmitFromRead(r, progress, pc) ==
    LET m == device_event_emit(Machine, DC_EVENT_PROGRESS, progress) IN
    [r EXCEPT !.progress = progress, !.emitted = TRUE,
              !.assert_failed = m.assert_failed,
              !.pc = IF m.assert_failed /\ ~r.ndebug THEN "aborted" ELSE pc]

\* The entry of device_dump_read (lines 206-217); hasRead is
\* "device->vtable->read != NULL".
ReadStart ==
    /\ rd.pc = "idle"
    /\ \E size \in 0..MaxSize, blocksize \in 0..MaxBlock, hasRead \in BOOLEAN :
         LET r == [rd EXCEPT !.size = size, !.blocksize = blocksize, !.nbytes = 0,
                             !.emitted = FALSE, !.assert_failed = FALSE,
                             !.progress = NoProgress, !.rc = DC_STATUS_SUCCESS,
                             !.turn = 0]
         IN rd' = IF ~hasRead
                  THEN [r EXCEPT !.pc = "done", !.rc = DC_STATUS_UNSUPPORTED]
                  ELSE EmitFromRead(r, [current |-> 0, maximum |-> size], "loop")
    /\ UNCHANGED <<owner, dev, data, io, res, buffer, op, wire, ex>>

\* One turn of the loop (lines 218-234); rc is the answer of the read.
ReadBlock ==
    /\ rd.pc = "loop"
    /\ rd.nbytes < rd.size
    /\ \E rc \in {DC_STATUS_SUCCESS, DC_STATUS_IO} :
         LET len0 == rd.size - rd.nbytes
             len == IF len0 > rd.blocksize THEN rd.blocksize ELSE len0
         IN rd' = IF rc # DC_STATUS_SUCCESS
                  THEN [rd EXCEPT !.pc = "done", !.rc = rc, !.turn = 1 - @]
                  ELSE [EmitFromRead(rd, [rd.progress EXCEPT !.current = @ + len], "loop")
                           EXCEPT !.nbytes = @ + len, !.turn = 1 - @]
    /\ UNCHANGED <<owner, dev, data, io, res, buffer, op, wire, ex>>

\* The loop ends (line 236).
ReadReturn ==
    /\ rd.pc = "loop"
    /\ ~(rd.nbytes < rd.size)
    /\ rd' = [rd EXCEPT !.pc = "done", !.rc = DC_STATUS_SUCCESS]
    /\ UNCHANGED <<owner, dev, data, io, res, buffer, op, wire, ex>>

\* The caller is ready for another device_dump_read.
ReadAgain ==
    /\ rd.pc = "done"
    /\ rd' = [NoRead EXCEPT !.pc = "idle", !.ndebug = rd.ndebug]
    /\ UNCHANGED <<owner, dev, data, io, res, buffer, op, wire, ex>>

NextRead ==
    \/ ReadStart
    \/ ReadBlock
    \/ ReadReturn
    \/ ReadAgain

SpecRead == InitRead /\ [][NextRead]_vars

(***************************************************************************)
(* reefnet_sensus_extract_dives on its own, over a buffer the caller built. *)
(***************************************************************************)
InitExtract ==
    /\ owner = "caller"
    /\ dev = NoDevice
    /\ data = NoData
    /\ io = NoIo
    /\ res = NoRes
    /\ buffer = <<>>
    /\ op = Idle
    /\ wire = NoWire
    /\ rd = NoRead
    /\ ex = [NoExtract EXCEPT !.pc = "idle"]

\* One run of the extraction over s and what it leaves behind.
ExtractRun(e, s, cb) ==
    LET r == reefnet_sensus_extract_dives(s.image, Len(s.image), TRUE, s.dev.timestamp, cb)
        s1 == ExtractDivesEffect(s, r)
    IN [e EXCEPT !.image = s1.image, !.dev = s1.dev, !.rc = r.rc, !.visits = r.visits,
                 !.examined = r.examined, !.reads = r.reads, !.walks = r.walks]

\* An extraction over a buffer of dives, the cursor at 0 or at the timestamp
\* of one of the dives.
Extract ==
    /\ ex.pc = "idle"
    /\ \E shapes \in DiveLogs, cb \in Callbacks :
         \E cursor \in {0} \cup {array_uint32_le(shapes[i].ts) : i \in DOMAIN shapes} :
           LET s == [dev |-> SessionAfterDump(cursor), image |-> ImageOf(shapes)]
               e == ExtractRun([ex EXCEPT !.pc = "done", !.shapes = shapes, !.cb = cb,
                                          !.image0 = s.image, !.dev0 = s.dev,
                                          !.runs = 1], s, cb)
           IN ex' = [e EXCEPT !.first = [rc |-> e.rc, visits |-> e.visits]]
    /\ UNCHANGED <<owner, dev, data, io, res, buffer, op, wire, rd>>

\* The same extraction once more, over what the first one left.
ExtractAgain ==
    /\ ex.pc = "done"
    /\ ex.runs = 1
    /\ ex' = ExtractRun([ex EXCEPT !.runs = 2], [dev |-> ex.dev, image |-> ex.image], ex.cb)
    /\ UNCHANGED <<owner, dev, data, io, res, buffer, op, wire, rd>>

\* The caller is ready for another extraction.
ExtractReset ==
    /\ ex.pc = "done"
    /\ ex' = [NoExtract EXCEPT !.pc = "idle"]
    /\ UNCHANGED <<owner, dev, data, io, res, buffer, op, wire, rd>>

NextExtract ==
    \/ Extract
    \/ ExtractAgain
    \/ ExtractReset

SpecExtract == InitExtract /\ [][NextExtract]_vars

(***************************************************************************)
(* Properties.                                                             *)
(***************************************************************************)
\* The little-endian 32-bit value at offset 2 of the dive that starts at
\* offset d of the memory image.
C1_Stamp(image, d) ==
    image[d + 3] + 256 * image[d + 4] + 65536 * image[d + 5] + 16777216 * image[d + 6]

\* C1: a foreach never hands the visitor a dive whose little-endian timestamp,
\* at offset 2 of the dive, is less than or equal to the fingerprint cursor of
\* the session.
C1_NoDiveAtOrBelowCursor ==
    op.name = "dc_device_foreach" =>
        \A i \in 1..Len(op.visits) :
            C1_Stamp(op.scratch, op.visits[i].data) > dev.timestamp

\* C1, the case: with the cursor at 1, the image of three dives stamped 1, 2
\* and 2^24 yields the two newer dives and not the one stamped 1.
C1_Witness ==
    /\ op.name = "dc_device_foreach"
    /\ op.scratch = ImgThree
    /\ dev.timestamp = 1
    /\ Len(op.visits) = 2
    /\ op.rc = DC_STATUS_SUCCESS

C2_Writes == {i \in 1..Len(op.iolog) : op.iolog[i].call = "write"}

\* C2: a close of a waiting session makes exactly one write, of the byte 0x00,
\* and makes it before any close of the transport; a close of a session that
\* is not waiting makes no write.
C2_CancelOnClose ==
    (op.name \in {"dc_device_close", "close_device_data"} /\ op.pre.state = "open") =>
        IF op.pre.waiting # 0
        THEN \E i \in C2_Writes :
                /\ C2_Writes = {i}
                /\ op.iolog[i].data = <<0>>
                /\ \A j \in 1..Len(op.iolog) : op.iolog[j].call = "close" => i < j
        ELSE C2_Writes = {}

\* C2, the case: the bridge tears down a waiting session; the cancel byte is
\* written, then the transport is closed.
C2_Witness ==
    /\ op.name = "close_device_data"
    /\ op.pre.state = "open"
    /\ op.pre.waiting = 1
    /\ Len(op.iolog) = 2
    /\ op.iolog[1].call = "write"
    /\ op.iolog[1].data = <<0>>
    /\ op.iolog[2].call = "close"

\* C3, as the specification states it: once dc_device_close has closed the
\* session, the transport has been closed exactly one time.
C3_SessionCloseClosesTransport ==
    op.name = "dc_device_close" => io.closes = 1

\* C3, amended: dc_device_close does not close the transport (its close count
\* is what it was and the transport is still open); the transport is closed
\* by its owner, never twice, and the teardown of the bridge closes it exactly
\* once, after it has closed the session.
C3_OwnerClosesTransport ==
    /\ io.closes <= 1
    /\ op.name = "dc_device_close" =>
          /\ dev.state = "freed"
          /\ io.closes = op.pre.closes
          /\ io.state = "open"
    /\ (op.name = "close_device_data" /\ op.pre.state = "open") =>
          /\ dev.state = "freed"
          /\ io.closes = 1
          /\ io.state = "closed"
          /\ Len(op.calls) >= 2
          /\ op.calls[1].fn = "dc_device_close"
          /\ op.calls[2].fn = "dc_iostream_close"

\* C3, the case: a caller has closed its session and the transport is still
\* open, not yet closed by anyone.
C3_Witness ==
    /\ op.name = "dc_device_close"
    /\ dev.state = "freed"
    /\ io.state = "open"
    /\ io.closes = 0

C4_CancelFailed ==
    /\ op.pre.state = "open"
    /\ op.pre.waiting # 0
    /\ Len(op.iolog) >= 1
    /\ op.iolog[1].call = "write"
    /\ op.iolog[1].rc # DC_STATUS_SUCCESS

\* C4: when the cancel write of a close fails, dc_device_close returns the
\* status of that write and the session is deallocated exactly once all the
\* same; close_device_data goes on to close the transport and free the
\* context.
C4_ReleaseIsUnconditional ==
    /\ res.dev_frees <= res.dev_allocs
    /\ (op.name = "dc_device_close" /\ C4_CancelFailed) =>
          /\ op.rc = op.iolog[1].rc
          /\ dev.state = "freed"
          /\ res.dev_frees = op.pre.dev_frees + 1
    /\ (op.name = "close_device_data" /\ C4_CancelFailed) =>
          /\ op.calls[1] = [fn |-> "dc_device_close", rc |-> op.iolog[1].rc]
          /\ dev.state = "freed"
          /\ res.dev_frees = op.pre.dev_frees + 1
          /\ io.state = "closed"
          /\ io.closes = 1
          /\ res.ctx_frees = 1
          /\ res.ctx_frees = res.ctx_news
          /\ data = NoData

\* C4, the case: the teardown of the bridge, with the cancel write failing.
C4_Witness ==
    /\ op.name = "close_device_data"
    /\ C4_CancelFailed
    /\ op.calls[1].rc = DC_STATUS_TIMEOUT
    /\ res.dev_frees = 1
    /\ io.closes = 1
    /\ res.ctx_frees = 1

\* Whether a handshake is outstanding after the transport calls log[i..], w
\* telling whether one was before them: the reply to the 0x0A command, read
\* in full and starting with "OK", makes one outstanding; a 0x40 or 0x00
\* command that is written ends it.
RECURSIVE C5_Outstanding(_, _, _)
C5_Outstanding(log, i, w) ==
    IF i > Len(log) THEN w
    ELSE LET c == log[i] IN
         C5_Outstanding(log, i + 1,
            IF c.rc # DC_STATUS_SUCCESS THEN w
            ELSE IF c.call = "read" /\ i > 1 /\ log[i - 1].call = "write"
                    /\ log[i - 1].data = <<10>>
                 THEN (IF c.data[1] = 79 /\ c.data[2] = 75 THEN TRUE ELSE w)
            ELSE IF c.call = "write" /\ c.data \in {<<64>>, <<0>>} THEN FALSE
            ELSE w)

\* C5: waiting is false right after open, and after every call it is true
\* only if a handshake is outstanding: one succeeded (0x0A written, a reply
\* starting with "OK" read) and no 0x40 or 0x00 command was written since.
C5_WaitingOnlyAfterHandshake ==
    /\ (op.name \in {"reefnet_sensus_device_open", "open_ble_device_with_descriptor"}
           /\ dev.state = "open") => dev.waiting = 0
    /\ (op.name # "idle" /\ dev.waiting # 0) =>
           C5_Outstanding(op.iolog, 1, op.pre.waiting # 0)

\* C5, the case: the handshake of a dump succeeded and the dump command could
\* not be written: the session is left waiting.
C5_Witness ==
    /\ op.name = "dc_device_dump"
    /\ op.pre.waiting = 0
    /\ dev.waiting = 1
    /\ op.rc = DC_STATUS_IO
    /\ Len(op.iolog) = 4

C6_Progress ==
    SelectSeq(op.events, LAMBDA e : e.type = DC_EVENT_PROGRESS)

\* C6: the progress events of one dump all have the maximum
\* 4 + 32768 + 2 + 3 = 32777, the first has current 0, and current never
\* decreases and never exceeds the maximum, wherever the transfer stops.
C6_ProgressOfDump ==
    op.name = "dc_device_dump" =>
        LET P == C6_Progress IN
        /\ \A i \in 1..Len(P) :
              /\ P[i].data.maximum = 32777
              /\ P[i].data.current <= P[i].data.maximum
        /\ Len(P) >= 1 => P[1].data.current = 0
        /\ \A i \in 1..(Len(P) - 1) : P[i].data.current <= P[i + 1].data.current

\* C6, the case: a transfer that ran to its end, one event at the start and
\* one after each of the 257 reads, the last with current 32777.
C6_Witness ==
    /\ op.name = "dc_device_dump"
    /\ op.rc = DC_STATUS_SUCCESS
    /\ Len(C6_Progress) = 258
    /\ C6_Progress[258].data.current = 32777
    /\ C6_Progress[2].data.current = 128

\* C7, as the specification states it: every progress event that
\* device_dump_read hands to device_event_emit has a nonzero maximum that is
\* greater than or equal to current.
C7_ProgressPayloadValid ==
    rd.emitted => (rd.progress.maximum # 0 /\ rd.progress.maximum >= rd.progress.current)

C8_Framed(a) ==
    /\ <<a[1], a[2], a[3], a[4]>> = <<68, 65, 84, 65>>
    /\ <<a[32775], a[32776], a[32777]>> = <<69, 78, 68>>

\* a is g with exactly one payload byte changed.
C8_OnePayloadByteChanged(a, g) ==
    /\ Cardinality({i \in 5..32772 : a[i] # g[i]}) = 1
    /\ \A i \in (1..4) \cup (32773..32777) : a[i] = g[i]

\* C8: a reply received in full, starting with "DATA" and ending with "END",
\* is accepted if and only if its little-endian 16-bit checksum equals the
\* sum of its payload bytes modulo 2^16, and is refused with a protocol error
\* otherwise; an accepted reply with one payload byte changed is refused so.
C8_ChecksumDecides ==
    (op.name = "dc_device_dump" /\ Len(op.answer) = 32777) =>
        /\ C8_Framed(op.answer) =>
              LET sent == op.answer[32773] + 256 * op.answer[32774]
                  sum == SumBytes(op.answer, 5, 32772) % 65536
              IN /\ (op.rc = DC_STATUS_SUCCESS) <=> (sent = sum)
                 /\ op.rc # DC_STATUS_SUCCESS => op.rc = DC_STATUS_PROTOCOL
        /\ (\E g \in WireGood : C8_OnePayloadByteChanged(op.answer, g)) =>
              op.rc = DC_STATUS_PROTOCOL

\* C8, the case: a reply whose payload sums to more than 2^16 is accepted on
\* the sum modulo 2^16.
C8_Witness ==
    /\ op.name = "dc_device_dump"
    /\ Len(op.answer) = 32777
    /\ op.rc = DC_STATUS_SUCCESS
    /\ SumBytes(op.answer, 5, 32772) > 65536
    /\ op.answer[32773] + 256 * op.answer[32774] = 32768

\* C9: dc_device_dump leaves in the buffer exactly the payload of the reply,
\* the bytes between "DATA" and the checksum, when it succeeds, and leaves the
\* buffer empty, whatever it held before, when it fails.
C9_BufferAfterDump ==
    op.name = "dc_device_dump" =>
        IF op.rc = DC_STATUS_SUCCESS
        THEN /\ Len(buffer) = MemSize
             /\ \A i \in 1..MemSize : buffer[i] = op.answer[4 + i]
        ELSE buffer = <<>>

\* C9, the case: a dump that fails on its second read, into a buffer that
\* held the payload of an earlier dump.
C9_Witness ==
    /\ op.name = "dc_device_dump"
    /\ op.pre.buflen > 0
    /\ op.rc = DC_STATUS_TIMEOUT
    /\ Len(op.iolog) = 6
    /\ buffer = <<>>

\* C10: when the visitor answers "stop" on its k-th invocation, the foreach
\* succeeds and has invoked the visitor exactly k times, whatever lies at
\* lower addresses, well formed or not.
C10_StopEndsExtraction ==
    (op.name = "dc_device_foreach" /\ ~op.cb.null /\ op.cb.stopAt >= 1
        /\ Len(op.visits) >= op.cb.stopAt) =>
            /\ Len(op.visits) = op.cb.stopAt
            /\ op.rc = DC_STATUS_SUCCESS

\* C10, the case: the visitor stops on the first dive of an image whose
\* oldest dive is cut short, which an extraction that went on would refuse.
C10_Witness ==
    /\ op.name = "dc_device_foreach"
    /\ op.scratch = ImgOldTruncated
    /\ op.cb.stopAt = 1
    /\ Len(op.visits) = 1
    /\ op.rc = DC_STATUS_SUCCESS

\* The depth byte of sample j of the dive that starts at offset c of image:
\* the samples follow the 7-byte header, and the samples 0, 6, 12, ... carry
\* a temperature byte after their depth byte.
C11_Depth(image, c, j) == image[c + 7 + j + (j + 5) \div 6 + 1]

\* Sample j of the dive at c lies wholly below the offset bound.
C11_Whole(c, j, bound) ==
    c + 7 + j + (j + 5) \div 6 + (IF j % 6 = 0 THEN 2 ELSE 1) <= bound

\* The dive at c has 17 consecutive samples below 16 before bound.
C11_HasEnd(image, c, bound) ==
    \E j \in 16..(bound - c) :
        /\ C11_Whole(c, j, bound)
        /\ \A k \in (j - 16)..j : C11_Depth(image, c, k) < 16

\* The boundary of the dive the scan looks at after the visits it has made:
\* the start of the dive visited last, or the end of the buffer.
C11_Bound ==
    IF op.visits = <<>> THEN Len(op.scratch) ELSE op.visits[Len(op.visits)].data

C11_MarkersBelow ==
    {c \in 0..(C11_Bound - 8) : op.scratch[c + 1] = 255 /\ op.scratch[c + 7] = 254}

C11_NextMarker == CHOOSE c \in C11_MarkersBelow : \A d \in C11_MarkersBelow : d <= c

C11_Malformed ==
    /\ C11_MarkersBelow # {}
    /\ ~C11_HasEnd(op.scratch, C11_NextMarker, C11_Bound)

\* C11: an extraction that comes to a start marker whose samples do not hold
\* 17 consecutive depths below 16 before the previous boundary returns the
\* data-format error; the visitor is invoked only for dives that have such a
\* run, all of them above the malformed one, and the data-format error is
\* returned in no other case.
C11_MalformedDiveFails ==
    (op.name = "dc_device_foreach" /\ op.scratch # <<>> /\ ~op.cb.null) =>
        LET stopped == op.cb.stopAt >= 1 /\ Len(op.visits) = op.cb.stopAt IN
        /\ \A i \in 1..Len(op.visits) :
              C11_HasEnd(op.scratch, op.visits[i].data,
                         IF i = 1 THEN Len(op.scratch) ELSE op.visits[i - 1].data)
        /\ (C11_Malformed /\ ~stopped) => op.rc = DC_STATUS_DATAFORMAT
        /\ op.rc = DC_STATUS_DATAFORMAT =>
              /\ C11_Malformed
              /\ \A i \in 1..Len(op.visits) : op.visits[i].data > C11_NextMarker

\* C11, the case: the oldest of three dives is cut short; the two dives above
\* it are visited, then the extraction fails.
C11_Witness ==
    /\ op.name = "dc_device_foreach"
    /\ op.scratch = ImgOldTruncated
    /\ ~op.cb.null
    /\ Len(op.visits) = 2
    /\ op.rc = DC_STATUS_DATAFORMAT

\* The offset at which dive i of a buffer built from shapes starts, and the
\* number of bytes it was built with.
C12_Start(shapes, i) == Len(ImageOf(SubSeq(shapes, 1, i - 1)))
C12_Length(shapes, i) == Len(SynDive(shapes[i]))

\* An extraction with cutoff 0 over a buffer of exactly two synthetic dives,
\* with a visitor that never stops.
C12_TwoDiveCase ==
    /\ ex.pc = "done"
    /\ Len(ex.shapes) = 2
    /\ \A i \in 1..2 : ex.shapes[i].nsurf >= 17
    /\ ex.dev0.timestamp = 0
    /\ ~ex.cb.null
    /\ ex.cb.stopAt = 0

\* Success, and two visits: the dive at the higher address, then the other,
\* each with the start and the length it was built with.
C12_BothReported ==
    /\ ex.rc = DC_STATUS_SUCCESS
    /\ Len(ex.visits) = 2
    /\ \A k \in 1..2 :
          /\ ex.visits[k].data = C12_Start(ex.shapes, 3 - k)
          /\ ex.visits[k].size = C12_Length(ex.shapes, 3 - k)

C13_Stamp(k) ==
    LET ts == ex.shapes[k].ts
    IN ts[1] + 256 * ts[2] + 65536 * ts[3] + 16777216 * ts[4]

\* An extraction over a buffer of well-formed dives, with a visitor that
\* never stops.
C13_Case ==
    /\ ex.pc = "done"
    /\ ~ex.cb.null
    /\ ex.cb.stopAt = 0
    /\ \A k \in 1..Len(ex.shapes) : ex.shapes[k].nsurf = 17

\* The dives the visitor was handed, by their position in the buffer.
C13_Reported ==
    {k \in 1..Len(ex.shapes) :
        \E i \in 1..Len(ex.visits) : ex.visits[i].data = C12_Start(ex.shapes, k)}

\* C13, as the specification states it: with the cursor at the timestamp of
\* dive N, every dive that is stored after N and is strictly newer than N is
\* reported, and neither N nor any dive that is not newer than N is.
C13_NewerThanNReported ==
    C13_Case =>
        \A n \in 1..Len(ex.shapes) :
            C13_Stamp(n) = ex.dev0.timestamp =>
                /\ \A k \in (n + 1)..Len(ex.shapes) :
                      C13_Stamp(k) > C13_Stamp(n) => k \in C13_Reported
                /\ \A k \in 1..Len(ex.shapes) :
                      C13_Stamp(k) <= C13_Stamp(n) => k \notin C13_Reported

\* The dives stamped at or below the cursor.
C13_Seen == {k \in 1..Len(ex.shapes) : C13_Stamp(k) <= ex.dev0.timestamp}

\* The last of them in the buffer, 0 when there is none.
C13_LastSeen ==
    IF C13_Seen = {} THEN 0 ELSE CHOOSE k \in C13_Seen : \A j \in C13_Seen : j <= k

\* C13, amended: the extraction succeeds and reports exactly the dives stored
\* above the last dive of the buffer that is stamped at or below the cursor,
\* highest address first, each with the slice it was built with; when the
\* timestamps increase with the address and the cursor is the timestamp of
\* dive N, these are the dives stored after N.
C13_ReportedAboveLastSeen ==
    C13_Case =>
        /\ ex.rc = DC_STATUS_SUCCESS
        /\ Len(ex.visits) = Len(ex.shapes) - C13_LastSeen
        /\ \A i \in 1..Len(ex.visits) :
              LET k == Len(ex.shapes) + 1 - i IN
              /\ ex.visits[i].data = C12_Start(ex.shapes, k)
              /\ ex.visits[i].size = C12_Length(ex.shapes, k)
        /\ (\A k \in 1..(Len(ex.shapes) - 1) : C13_Stamp(k) < C13_Stamp(k + 1)) =>
              \A n \in 1..Len(ex.shapes) :
                  C13_Stamp(n) = ex.dev0.timestamp =>
                      C13_Reported = (n + 1)..Len(ex.shapes)

\* C13, the case: three dives stamped 1, 2 and 2^24 with the cursor at 1; the
\* two dives stored after the first are reported and the first is not.
C13_Witness ==
    /\ C13_Case
    /\ Len(ex.shapes) = 3
    /\ ex.shapes[1].ts = TS1
    /\ ex.shapes[2].ts = TS2
    /\ ex.shapes[3].ts = TS3
    /\ ex.dev0.timestamp = 1
    /\ C13_Reported = {2, 3}

\* The (slice start, slice length, fingerprint) triples of a sequence of
\* visitor invocations.
C14_Triples(visits) ==
    [i \in 1..Len(visits) |-> <<visits[i].data, visits[i].size, visits[i].fingerprint>>]

C15_SetFingerprint ==
    op.name = "dc_device_set_fingerprint" =>
        LET a == op.arg IN
        /\ op.iolog = <<>>
        /\ Len(a) = 0 =>
              /\ op.rc = DC_STATUS_SUCCESS
              /\ dev = [op.pre.dev EXCEPT !.timestamp = 0]
        /\ Len(a) = 4 =>
              /\ op.rc = DC_STATUS_SUCCESS
              /\ dev = [op.pre.dev EXCEPT !.timestamp =
                           a[1] + 256 * a[2] + 65536 * a[3] + 16777216 * a[4]]
        /\ Len(a) \notin {0, 4} =>
              /\ op.rc = DC_STATUS_INVALIDARGS
              /\ dev = op.pre.dev

\* C15, the case: a fingerprint of 3 bytes is refused by a session whose
\* cursor is at 2^24, and the cursor stays there.
C15_Witness ==
    /\ op.name = "dc_device_set_fingerprint"
    /\ Len(op.arg) = 3
    /\ op.rc = DC_STATUS_INVALIDARGS
    /\ op.pre.dev.timestamp = 16777216
    /\ dev.timestamp = 16777216

\* The handshake of the call succeeded: the command 0x0A was written and a
\* reply that starts with "OK" was read.
C16_HandshakeDone ==
    /\ Len(op.iolog) >= 2
    /\ op.iolog[1] = IoCall("write", <<10>>, 1, DC_STATUS_SUCCESS)
    /\ op.iolog[2].call = "read"
    /\ op.iolog[2].rc = DC_STATUS_SUCCESS
    /\ op.iolog[2].data[1] = 79
    /\ op.iolog[2].data[2] = 75

\* The events of the call other than its progress events.
C16_Events == SelectSeq(op.events, LAMBDA e : e.type # DC_EVENT_PROGRESS)

\* C16: a call whose handshake succeeds emits a clock event, a device-info
\* event and a vendor event with the 10 bytes that follow "OK" in the reply,
\* these three and in this order, each with waiting set and after the read of
\* the reply, and the next transport call is the sleep of 10 ms; a call whose
\* handshake fails emits none of them.
C16_HandshakeEvents ==
    op.name \in {"dc_device_dump", "dc_device_foreach"} =>
        LET E == C16_Events IN
        IF C16_HandshakeDone
        THEN /\ Len(E) = 3
             /\ E[1].type = DC_EVENT_CLOCK
             /\ E[2].type = DC_EVENT_DEVINFO
             /\ E[3].type = DC_EVENT_VENDOR
             /\ E[3].data = [data |-> SubSeq(op.iolog[2].data, 3, 12), size |-> 10]
             /\ \A i \in 1..3 : E[i].waiting = 1 /\ E[i].at = 2
             /\ Len(op.iolog) >= 3
             /\ op.iolog[3] = IoCall("sleep", <<>>, 10, DC_STATUS_SUCCESS)
        ELSE E = <<>>

\* C16, the case: the handshake of a dump on a session that was not waiting.
C16_Witness ==
    /\ op.name = "dc_device_dump"
    /\ op.pre.waiting = 0
    /\ C16_HandshakeDone
    /\ Len(C16_Events) = 3
    /\ C16_Events[3].data.data = <<51, 49, 0, 0, 52, 18, 5, 0, 0, 0>>

\* The three ways the handshake of a call fails, read off its transport
\* calls: the write of 0x0A fails, the read of the reply fails, or the reply
\* does not start with "OK".
C17_WriteFailed ==
    /\ Len(op.iolog) >= 1
    /\ op.iolog[1].call = "write"
    /\ op.iolog[1].data = <<10>>
    /\ op.iolog[1].rc # DC_STATUS_SUCCESS

C17_ReadFailed ==
    /\ Len(op.iolog) >= 2
    /\ op.iolog[1] = IoCall("write", <<10>>, 1, DC_STATUS_SUCCESS)
    /\ op.iolog[2].call = "read"
    /\ op.iolog[2].rc # DC_STATUS_SUCCESS

C17_HeaderWrong ==
    /\ Len(op.iolog) >= 2
    /\ op.iolog[1] = IoCall("write", <<10>>, 1, DC_STATUS_SUCCESS)
    /\ op.iolog[2].call = "read"
    /\ op.iolog[2].rc = DC_STATUS_SUCCESS
    /\ ~(op.iolog[2].data[1] = 79 /\ op.iolog[2].data[2] = 75)

\* The session is what it was on entry, and no command 0x40 was written.
C17_Untouched ==
    /\ dev = op.pre.dev
    /\ \A i \in 1..Len(op.iolog) :
          ~(op.iolog[i].call = "write" /\ op.iolog[i].data = <<64>>)

\* C17: a call whose handshake fails at its write or at its read returns the
\* status of that transport call, one whose reply does not start with "OK"
\* returns DC_STATUS_PROTOCOL; in each case the session (waiting, handshake,
\* clock calibration, cursor, cached device info and clock) is as it was on
\* entry and no dump command is written.
C17_FailedHandshakeFrame ==
    op.name \in {"dc_device_dump", "dc_device_foreach"} =>
        /\ C17_WriteFailed => (op.rc = op.iolog[1].rc /\ C17_Untouched)
        /\ C17_ReadFailed => (op.rc = op.iolog[2].rc /\ C17_Untouched)
        /\ C17_HeaderWrong => (op.rc = DC_STATUS_PROTOCOL /\ C17_Untouched)

\* C17, the case: a reply without "OK" to a session that an earlier handshake
\* had left waiting, with its device info cached; it is still waiting.
C17_Witness ==
    /\ op.name = "dc_device_dump"
    /\ C17_HeaderWrong
    /\ op.pre.dev.waiting = 1
    /\ op.pre.dev.devinfo.serial = 4660
    /\ dev.waiting = 1
    /\ op.rc = DC_STATUS_PROTOCOL

\* The configure or the set_timeout of the call failed.
C18_SetupFailed(i) ==
    /\ op.iolog[i].call \in {"configure", "set_timeout"}
    /\ op.iolog[i].rc # DC_STATUS_SUCCESS

\* C18: when dc_iostream_configure or dc_iostream_set_timeout fails in
\* reefnet_sensus_device_open, the open returns the status of that call, the
\* session it allocated is deallocated exactly once, *out is not written, no
\* purge and no other transport call follows, and the transport is still open
\* and in the hands of the caller.
C18_FailedOpen ==
    op.name = "reefnet_sensus_device_open" =>
        \A i \in 1..Len(op.iolog) :
            C18_SetupFailed(i) =>
                /\ op.rc = op.iolog[i].rc
                /\ i = Len(op.iolog)
                /\ \A j \in 1..Len(op.iolog) : op.iolog[j].call \notin {"purge", "close"}
                /\ dev.state = "freed"
                /\ res.dev_frees = op.pre.dev_frees + 1
                /\ res.dev_frees = res.dev_allocs
                /\ ~op.out
                /\ io.state = "open"
                /\ io.closes = 0
                /\ owner = "caller"

\* C18, the case: the configure succeeded and the set_timeout timed out.
C18_Witness ==
    /\ op.name = "reefnet_sensus_device_open"
    /\ Len(op.iolog) = 2
    /\ op.iolog[1].call = "configure"
    /\ op.iolog[2].call = "set_timeout"
    /\ op.iolog[2].rc = DC_STATUS_TIMEOUT
    /\ op.rc = DC_STATUS_TIMEOUT
    /\ dev.state = "freed"

\* C19, as the specification states it: a dump whose registered cancel
\* predicate answers true while it is in its read loop, with reads still to
\* go, stops before it has read the 32777 bytes of the answer.
C19_CancelledDumpStops ==
    (wire.pc = "reading" /\ device_is_cancelled(dev) # 0) => wire.nbytes < 32777

\* C20: in a dump or a foreach, a write or a read that the transport fails is
\* the last transport call of the operation, and the operation returns the
\* status of that call.
C20_TransportErrorPropagates ==
    op.name \in {"dc_device_dump", "dc_device_foreach"} =>
        \A i \in 1..Len(op.iolog) :
            (op.iolog[i].call \in {"write", "read"}
                /\ op.iolog[i].rc # DC_STATUS_SUCCESS) =>
                    /\ i = Len(op.iolog)
                    /\ op.rc = op.iolog[i].rc

\* C20, the case: the second read of the answer times out in a foreach; the
\* handshake, the sleep, the command and one read came before it and nothing
\* comes after.
C20_Witness ==
    /\ op.name = "dc_device_foreach"
    /\ Len(op.iolog) = 6
    /\ op.iolog[4].data = <<64>>
    /\ op.iolog[5].rc = DC_STATUS_SUCCESS
    /\ op.iolog[6].call = "read"
    /\ op.iolog[6].rc = DC_STATUS_TIMEOUT
    /\ op.rc = DC_STATUS_TIMEOUT
    /\ op.visits = <<>>

(***************************************************************************)
(* device_event_emit on its own: an open session whose backend emits one   *)
(* event at a time, between the subscriptions of the application.          *)
(***************************************************************************)
InitEmit ==
    /\ owner = "caller"
    /\ dev = NewDevice
    /\ data = NoData
    /\ io = [NoIo EXCEPT !.state = "open"]
    /\ res = [NoRes EXCEPT !.dev_allocs = 1]
    /\ buffer = <<>>
    /\ op = Idle
    /\ wire = NoWire
    /\ rd = NoRead
    /\ ex = NoExtract

EmitMasks ==
    {{}, {DC_EVENT_PROGRESS, DC_EVENT_VENDOR}, {DC_EVENT_DEVINFO, DC_EVENT_CLOCK},
     {DC_EVENT_DEVINFO, DC_EVENT_PROGRESS, DC_EVENT_CLOCK},
     {DC_EVENT_WAITING, DC_EVENT_PROGRESS, DC_EVENT_DEVINFO, DC_EVENT_CLOCK,
      DC_EVENT_VENDOR}}

\* The payloads a backend hands over with each type of event; a waiting
\* event carries none.
EmitPayloads(event) ==
    CASE event = DC_EVENT_WAITING -> {[null |-> TRUE]}
      [] event = DC_EVENT_PROGRESS ->
            {[current |-> 0, maximum |-> 9], [current |-> 9, maximum |-> 9]}
      [] event = DC_EVENT_DEVINFO ->
            {[model |-> 3, firmware |-> 1, serial |-> 4660],
             [model |-> 2, firmware |-> 0, serial |-> 1]}
      [] event = DC_EVENT_CLOCK ->
            {[devtime |-> 5, systime |-> 1000], [devtime |-> 7, systime |-> 2000]}
      [] event = DC_EVENT_VENDOR ->
            {[data |-> Rep(1, SZ_HANDSHAKE), size |-> SZ_HANDSHAKE]}

EmitTypes ==
    {DC_EVENT_WAITING, DC_EVENT_PROGRESS, DC_EVENT_DEVINFO, DC_EVENT_CLOCK,
     DC_EVENT_VENDOR}

\* The application subscribes, unsubscribes or changes its mask.
Subscribe ==
    /\ dev.state = "open"
    /\ op.name = "idle"
    /\ \E events \in EmitMasks, callback \in BOOLEAN :
         Commit("dc_device_set_events",
                dc_device_set_events(Machine, events, callback), NoCallback)
    /\ UNCHANGED owner

\* A call of the backend emits one more event, up to MaxEmits in a call.
Emit ==
    /\ dev.state = "open"
    /\ op.name \in {"idle", "device_event_emit"}
    /\ Len(op.events) < MaxEmits
    /\ \E event \in EmitTypes : \E payload \in EmitPayloads(event) :
         LET r == device_event_emit(IF op.name = "idle" THEN Machine ELSE Underway,
                                    event, payload)
         IN /\ Store(r)
            /\ op' = Observed("device_event_emit", [r EXCEPT !.rc = "void"],
                               IF op.name = "idle" THEN Pre ELSE op.pre, NoCallback)
    /\ UNCHANGED <<owner, wire, rd, ex>>

NextEmit ==
    \/ Subscribe
    \/ Emit
    \/ Proceed

SpecEmit == InitEmit /\ [][NextEmit]_vars

\* The events, of those emitted, that a session subscribed as d is to be given.
C21_Subscribed(d, events) ==
    SelectSeq(events, LAMBDA e : d.event_callback /\ e.type \in d.event_mask)

\* C21 as stated: the subscriber is called if and only if a callback is
\* registered and the type of the event is in the mask last set, and an emit
\* that does not call it is a no-op: it leaves the session as it found it.
C21_UndispatchedEmitIsNoOp ==
    /\ op.delivered = C21_Subscribed(op.pre.dev, op.events)
    /\ (op.name = "device_event_emit" /\ op.delivered = <<>>) => dev = op.pre.dev

\* C21: the subscriber is called if and only if a callback is registered and
\* the type of the event is in the mask last set by dc_device_set_events; an
\* emit that does not call it leaves the session as it found it but for the
\* cached device info and clock.
C21_DispatchIffSubscribed ==
    /\ op.delivered = C21_Subscribed(op.pre.dev, op.events)
    /\ (op.name = "device_event_emit" /\ op.delivered = <<>>) =>
           [dev EXCEPT !.devinfo = op.pre.dev.devinfo, !.clock = op.pre.dev.clock]
               = op.pre.dev

\* C21 witness: with a callback registered, a device info event whose type
\* is outside the mask has been emitted and not dispatched.
C21_Witness ==
    /\ op.name = "device_event_emit"
    /\ op.pre.dev.event_callback
    /\ op.pre.dev.event_mask = {DC_EVENT_PROGRESS, DC_EVENT_VENDOR}
    /\ op.events[1].type = DC_EVENT_DEVINFO
    /\ op.delivered = <<>>

\* The payload of the last event of the given type in events, or default.
C22_Last(events, type, default) ==
    LET idx == {i \in 1..Len(events) : events[i].type = type} IN
    IF idx = {} THEN default
    ELSE events[CHOOSE i \in idx : \A j \in idx : j <= i].data

C22_ZeroCache == dev.devinfo = NoDevinfo /\ dev.clock = NoClock

\* The cache after the events of the call that is under way or just over.
C22_CacheIsLast ==
    op.name # "idle" =>
        /\ dev.devinfo = C22_Last(op.events, DC_EVENT_DEVINFO, op.pre.dev.devinfo)
        /\ dev.clock = C22_Last(op.events, DC_EVENT_CLOCK, op.pre.dev.clock)
        /\ \A i \in 1..Len(op.events) :
             /\ op.events[i].devinfo =
                    C22_Last(SubSeq(op.events, 1, i), DC_EVENT_DEVINFO, op.pre.dev.devinfo)
             /\ op.events[i].clock =
                    C22_Last(SubSeq(op.events, 1, i), DC_EVENT_CLOCK, op.pre.dev.clock)

\* C22: the cached device info and clock of a session are zero when it is
\* allocated and, after any sequence of emits, are the payloads of the last
\* device-info and clock events emitted, with or without a callback and
\* whatever the mask; the cache already holds the payload when the function
\* reaches the dispatch; progress, vendor and waiting events leave it alone.
C22_CacheIsLastEmitted == C22_ZeroCache /\ [][C22_CacheIsLast']_vars

\* C22 witness: with no callback registered, two device-info events with
\* different payloads and a progress event have been emitted, and the cache
\* holds the second payload.
C22_Witness ==
    /\ op.name = "device_event_emit"
    /\ ~op.pre.dev.event_callback
    /\ Len(op.events) = 3
    /\ op.events[1].type = DC_EVENT_DEVINFO
    /\ op.events[2].type = DC_EVENT_DEVINFO
    /\ op.events[3].type = DC_EVENT_PROGRESS
    /\ op.events[1].data # op.events[2].data
    /\ dev.devinfo = op.events[2].data

\* Whether the dump of the foreach succeeded, from what it received: every
\* read succeeded (the answer is complete), it is framed and its checksum
\* is right.
C23_DumpOk ==
    /\ op.answer # <<>>
    /\ AnswerFramed(op.answer)
    /\ ChecksumOk(op.answer, MemSize)

\* The status of a dump that failed, from the transport calls it made.
C23_DumpError ==
    IF op.iolog = <<>> THEN DC_STATUS_NOMEMORY
    ELSE IF op.iolog[Len(op.iolog)].rc # DC_STATUS_SUCCESS
    THEN op.iolog[Len(op.iolog)].rc
    ELSE DC_STATUS_PROTOCOL

\* The extraction over the scratch buffer of the foreach.
C23_Extraction ==
    reefnet_sensus_extract_dives(op.scratch, Len(op.scratch), TRUE,
                                 op.pre.timestamp, op.cb)

\* C23: the foreach allocates one scratch buffer, runs the extraction only
\* if the dump succeeded, and has released the scratch buffer exactly once
\* when it returns, whether the dump failed, the extraction succeeded, it
\* met a data-format error or the visitor stopped it; its status is the
\* error of the dump, or else the status of the extraction.
C23_ScratchReleasedOnce ==
    op.name = "dc_device_foreach" =>
        /\ op.buf_news \in {0, 1}
        /\ op.buf_frees = op.buf_news
        /\ op.buf_news = 0 =>
               op.rc = DC_STATUS_NOMEMORY /\ op.iolog = <<>> /\ op.scratch = <<>>
        /\ op.scratch # <<>> <=> (op.buf_news = 1 /\ C23_DumpOk)
        /\ (op.buf_news = 1 /\ ~C23_DumpOk) =>
               /\ op.rc = C23_DumpError
               /\ op.rc # DC_STATUS_SUCCESS
               /\ op.visits = <<>>
        /\ (op.buf_news = 1 /\ C23_DumpOk) =>
               /\ op.rc = C23_Extraction.rc
               /\ op.visits = C23_Extraction.visits

\* C23 witness: a foreach whose dump succeeded over three dives was stopped
\* by the visitor at the second and has released its scratch buffer.
C23_Witness ==
    /\ op.name = "dc_device_foreach"
    /\ op.scratch = ImgThree
    /\ op.cb.stopAt = 2
    /\ Len(op.visits) = 2
    /\ op.rc = DC_STATUS_SUCCESS
    /\ op.buf_news = 1
    /\ op.buf_frees = 1

(***************************************************************************)
(* The handshake on its own, over replies whose ten payload bytes vary.    *)
(* The model and firmware bytes are '0' or above, and the top byte of the  *)
(* clock is below 128.                                                     *)
(***************************************************************************)
HandshakeReplies ==
    {<<79, 75, mo, fw, 0, 0, s0, s1, c0, 1, 0, c3>> :
        mo \in {48, 51, 57, 255}, fw \in {48, 49, 255},
        s0 \in {0, 52}, s1 \in {0, 18, 255},
        c0 \in {5, 255}, c3 \in {0, 127}}

HandshakeEnvs ==
    {[EnvOk(<<>>) EXCEPT !.hs = h] : h \in HandshakeReplies \cup HsBad}
    \cup {[EnvOk(<<>>) EXCEPT !.w1 = DC_STATUS_IO], [EnvOk(<<>>) EXCEPT !.r1 = DC_STATUS_TIMEOUT]}

Handshake ==
    /\ dev.state = "open"
    /\ op.name = "idle"
    /\ \E env \in HandshakeEnvs :
         Commit("reefnet_sensus_handshake", reefnet_sensus_handshake(Machine, env),
                NoCallback)
    /\ UNCHANGED owner

NextHandshake ==
    \/ Handshake
    \/ Proceed

SpecHandshake == InitEmit /\ [][NextHandshake]_vars

\* The little-endian value of bytes lo..hi (counted from 1) of reply.
RECURSIVE C24_LE(_, _, _)
C24_LE(reply, lo, hi) ==
    IF lo > hi THEN 0 ELSE reply[lo] + 256 * C24_LE(reply, lo + 1, hi)

\* C24: what a successful handshake decodes is a function of the 12 bytes of
\* the reply alone: model = reply[2] - '0', firmware = reply[3] - '0',
\* serial = the little-endian 16-bit value of reply[6..7], device clock =
\* the little-endian 32-bit value of reply[8..11], stored handshake =
\* reply[2..11]; a model byte '3' gives model 3.  (Bytes counted from 0.)
C24_HandshakeDecoding ==
    (op.name = "reefnet_sensus_handshake" /\ op.rc = DC_STATUS_SUCCESS) =>
        LET reply == op.iolog[2].data IN
        /\ op.iolog[2].call = "read"
        /\ Len(reply) = SZ_HANDSHAKE + 2
        /\ dev.devinfo.model = reply[3] - 48
        /\ reply[3] = 51 => dev.devinfo.model = 3
        /\ dev.devinfo.firmware = reply[4] - 48
        /\ dev.devinfo.serial = C24_LE(reply, 7, 8)
        /\ dev.devtime = C24_LE(reply, 9, 12)
        /\ dev.clock.devtime = C24_LE(reply, 9, 12)
        /\ dev.handshake = SubSeq(reply, 3, 12)
        /\ op.events[2].type = DC_EVENT_DEVINFO
        /\ op.events[2].data = dev.devinfo
        /\ op.events[3].data = [data |-> SubSeq(reply, 3, 12), size |-> SZ_HANDSHAKE]

\* C24 witness: a handshake with model byte '3', firmware byte '1', serial
\* bytes 0x34 0x12 and clock bytes FF 01 00 7F has been decoded on a session
\* that held the values of another reply.
C24_Witness ==
    /\ op.name = "reefnet_sensus_handshake"
    /\ op.rc = DC_STATUS_SUCCESS
    /\ op.iolog[2].data = <<79, 75, 51, 49, 0, 0, 52, 18, 255, 1, 0, 127>>
    /\ op.pre.dev.devinfo.model = 9
    /\ dev.devinfo = [model |-> 3, firmware |-> 1, serial |-> 4660]
    /\ dev.devtime = 255 + 256 + 127 * 16777216

(***************************************************************************)
(* The BLE transport on its own.  The repository has two of them: the one  *)
(* of LibDCBridge, a ble_stream_t with a close of its own, and the one of  *)
(* BLETest/libdivecomputer, which hands the BLE object to dc_custom_open   *)
(* with ble_close_wrapper as its close.  owner tells which of them opened  *)
(* the stream.  A stream is opened, closed and opened again, up to         *)
(* MaxOpens BLE objects.                                                   *)
(***************************************************************************)
MaxOpens == 3

\* ble_close_wrapper: ble_close, and nothing else.
ble_close_wrapper(m, rc) ==
    [m EXCEPT !.iolog = Append(@, IoCall("close", <<>>, 0, rc))]

\* dc_iostream_close on a stream of dc_custom_open: the close of the
\* callbacks, then the stream itself is freed.
dc_custom_close(m, rc) ==
    [ble_close_wrapper(m, rc) EXCEPT !.io.state = "closed",
                                     !.io.closes = @ + 1,
                                     !.io.stream_frees = @ + 1]

\* ble_packet_open of BLETest/libdivecomputer: createBLEObject,
\* connectToBLEDevice, discoverServices, enableNotifications, dc_custom_open.
bletest_ble_packet_open(m, env) ==
    IF env.ble = "nocreate" THEN [m EXCEPT !.rc = DC_STATUS_NOMEMORY]
    ELSE LET m1 == [m EXCEPT !.io.ble_news = @ + 1] IN
         IF env.ble \in {"noconnect", "nodiscover", "nonotify"}
         THEN [m1 EXCEPT !.io.ble_frees = @ + 1, !.rc = DC_STATUS_IO]
         ELSE IF env.ble = "nostream"
         THEN [m1 EXCEPT !.rc = DC_STATUS_NOMEMORY]
         ELSE [m1 EXCEPT !.io.state = "open", !.data.iostream = TRUE,
                         !.rc = DC_STATUS_SUCCESS]

\* The caller's stream pointer is NULL when it opens.
BlePacketOpen ==
    /\ owner \in {"none", "bridge"}
    /\ io.state # "open"
    /\ io.ble_news < MaxOpens
    /\ op.name = "idle"
    /\ \E k \in {"ok", "nocreate", "noconnect", "nostream"} :
         Commit("ble_packet_open",
                ble_packet_open([Machine EXCEPT !.data.iostream = FALSE],
                                [EnvOk(<<>>) EXCEPT !.ble = k]),
                NoCallback)
    /\ owner' = "bridge"

BleTestPacketOpen ==
    /\ owner \in {"none", "bletest"}
    /\ io.state # "open"
    /\ io.ble_news < MaxOpens
    /\ op.name = "idle"
    /\ \E k \in {"ok", "nocreate", "noconnect", "nodiscover", "nonotify", "nostream"} :
         Commit("ble_packet_open",
                bletest_ble_packet_open([Machine EXCEPT !.data.iostream = FALSE],
                                        [EnvOk(<<>>) EXCEPT !.ble = k]),
                NoCallback)
    /\ owner' = "bletest"

\* The owner of the stream closes it, and drops its pointer.
BleStreamClose ==
    /\ owner = "bridge"
    /\ io.state = "open"
    /\ op.name = "idle"
    /\ \E rc \in {DC_STATUS_SUCCESS, DC_STATUS_IO} :
         Commit("dc_iostream_close",
                [dc_iostream_close(Machine, rc) EXCEPT !.data.iostream = FALSE, !.rc = rc],
                NoCallback)
    /\ UNCHANGED owner

BleCustomClose ==
    /\ owner = "bletest"
    /\ io.state = "open"
    /\ op.name = "idle"
    /\ \E rc \in {DC_STATUS_SUCCESS, DC_STATUS_IO} :
         Commit("dc_iostream_close",
                [dc_custom_close(Machine, rc) EXCEPT !.data.iostream = FALSE, !.rc = rc],
                NoCallback)
    /\ UNCHANGED owner

NextBle ==
    \/ BlePacketOpen
    \/ BleTestPacketOpen
    \/ BleStreamClose
    \/ BleCustomClose
    \/ Proceed

SpecBle == Init /\ [][NextBle]_vars

\* C25: every BLE transport of the repository releases its wrapped BLE
\* object exactly once over its lifetime: it is never freed more often than
\* created, none is left when no stream is open (after a close, whatever
\* ble_close answered, and after a failed ble_packet_open), a failed
\* ble_packet_open hands out no stream, and a close frees the stream.
C25_BleObjectReleasedOnce ==
    /\ io.ble_frees <= io.ble_news
    /\ io.state # "open" => io.ble_frees = io.ble_news
    /\ io.state = "open" => io.ble_frees = io.ble_news - 1
    /\ io.stream_frees = io.closes
    /\ (op.name = "ble_packet_open" /\ op.rc # DC_STATUS_SUCCESS) =>
           ~data.iostream /\ io.state # "open"
    /\ op.name = "dc_iostream_close" =>
           /\ io.state = "closed"
           /\ ~data.iostream
           /\ op.rc = op.iolog[1].rc

(***************************************************************************)
(* reefnet_sensus_extract_dives over buffers of every small size and over  *)
(* buffers put together from dives, stray marker pairs and single bytes.   *)
(***************************************************************************)
MaxPieces == 3
MaxShort == 8

\* A 0xFF and a 0xFE six bytes apart, with nothing after them.
StrayPair == <<255, 0, 0, 0, 0, 0, 254>>

\* A dive whose last sample is one with a temperature byte (sample 18).
LongDive == SynDive([ts |-> TS3, ndeep |-> 2, nsurf |-> 17])

ScanPieces ==
    {SynDive(Whole),
     SynDive([ts |-> TS2, ndeep |-> 0, nsurf |-> 17]),
     LongDive,
     SubSeq(LongDive, 1, Len(LongDive) - 1),
     SynDive(CutShort),
     StrayPair,
     StrayPair \o <<0>>,
     <<0>>}

RECURSIVE Cat(_)
Cat(pieces) == IF pieces = <<>> THEN <<>> ELSE Head(pieces) \o Cat(Tail(pieces))

\* Every buffer of up to MaxShort bytes out of 0xFF, 0xFE and 0, but for those
\* with a marker pair whose timestamp has its top bit set.
ShortImages ==
    {b \in UNION {[1..n -> {255, 254, 0}] : n \in 0..MaxShort} :
        \A i \in 1..(Len(b) - 6) : (b[i] = 255 /\ b[i + 6] = 254) => b[i + 5] < 128}

ScanImages ==
    {Cat(p) : p \in UNION {[1..n -> ScanPieces] : n \in 1..MaxPieces}}
    \cup ShortImages

\* An extraction over one of these buffers, the cursor at 0 or at 2.
Scan ==
    /\ ex.pc = "idle"
    /\ \E image \in ScanImages, cb \in Callbacks, cursor \in {0, 2} :
         LET s == [dev |-> SessionAfterDump(cursor), image |-> image]
             e == ExtractRun([ex EXCEPT !.pc = "done", !.cb = cb,
                                        !.image0 = s.image, !.dev0 = s.dev,
                                        !.runs = 1], s, cb)
         IN ex' = [e EXCEPT !.first = [rc |-> e.rc, visits |-> e.visits]]
    /\ UNCHANGED <<owner, dev, data, io, res, buffer, op, wire, rd>>

NextScan ==
    \/ Scan
    \/ ExtractAgain
    \/ ExtractReset

SpecScan == InitExtract /\ [][NextScan]_vars

\* Whether the buffer has a 0xFF at index i and a 0xFE at index i + 6.
C26_PairAt(i) ==
    /\ i >= 0
    /\ i + 6 < Len(ex.image0)
    /\ ex.image0[i + 1] = 255
    /\ ex.image0[i + 6 + 1] = 254

\* Whether the scan went on below the k-th dive it reported.
C26_WentOn(k) == ex.cb.stopAt # k

\* C26 as stated: the scan starts at index size - 7 and resumes 7 bytes below
\* a reported dive, so that a marker pair exactly at size - 7, or exactly 7
\* bytes below a reported dive, is taken as a start marker and fails the
\* extraction with a data-format error.
C26_ScanFromSizeMinus7 ==
    ex.pc = "done" =>
        /\ Len(ex.image0) >= 7 => Len(ex.image0) - 7 \in ex.examined
        /\ C26_PairAt(Len(ex.image0) - 7) => ex.rc = DC_STATUS_DATAFORMAT
        /\ \A k \in 1..Len(ex.visits) :
             (C26_WentOn(k) /\ C26_PairAt(ex.visits[k].data - 7)) =>
                 ex.rc = DC_STATUS_DATAFORMAT

\* C26: the scan tests the indices from size - 8 down to 0 (none when size
\* is below 8), and after reporting a dive at c it resumes at c - 8; a marker
\* pair exactly at size - 7, or exactly 7 bytes below a reported dive, is
\* never tested; a pair at size - 8, or 8 bytes below a reported dive, is
\* taken as a start marker and, with room for one byte only, fails the
\* extraction with a data-format error.
C26_ScanFromSizeMinus8 ==
    ex.pc = "done" =>
        LET size == Len(ex.image0) IN
        /\ ex.examined \subseteq 0..(size - 8)
        /\ size >= 8 => (size - 8) \in ex.examined
        /\ (\A i \in 0..(size - 8) : ~C26_PairAt(i)) => ex.examined = 0..(size - 8)
        /\ C26_PairAt(size - 8) => ex.rc = DC_STATUS_DATAFORMAT /\ ex.visits = <<>>
        /\ \A k \in 1..Len(ex.visits) :
             LET c == ex.visits[k].data IN
             /\ ex.examined \cap (c - 7)..(c - 1) = {}
             /\ (C26_WentOn(k) /\ c >= 8) => (c - 8) \in ex.examined
             /\ (C26_WentOn(k) /\ C26_PairAt(c - 8)) =>
                    ex.rc = DC_STATUS_DATAFORMAT /\ Len(ex.visits) = k

\* C26 witness: a buffer with a marker pair exactly 7 bytes below its only
\* dive and another in its last 7 bytes has been scanned to the bottom: the
\* dive is reported and the extraction succeeds.
C26_Witness ==
    /\ ex.pc = "done"
    /\ ex.image0 = StrayPair \o SynDive(Whole) \o StrayPair
    /\ C26_PairAt(Len(ex.image0) - 7)
    /\ Len(ex.visits) = 1
    /\ ex.visits[1].data = 7
    /\ C26_PairAt(ex.visits[1].data - 7)
    /\ C26_WentOn(1)
    /\ ex.rc = DC_STATUS_SUCCESS

\* The index of the depth byte of sample j of the dive that starts at i: the
\* samples follow the 7-byte header, and the samples 0, 6, 12, ... before j
\* have each taken one temperature byte more.
C27_DepthAt(i, j) == i + 7 + j + (j + 5) \div 6

\* Sample j of the dive at i completes a run of 17 depths below 16.
C27_Completes(i, j) ==
    /\ j >= 16
    /\ C27_DepthAt(i, j) < Len(ex.image0)
    /\ \A k \in (j - 16)..j : ex.image0[C27_DepthAt(i, k) + 1] < 16

\* C27: every slice handed to the visitor starts at an index i with
\* data[i] = 0xFF and data[i + 6] = 0xFE, has its fingerprint at i + 2 with
\* length 4, and ends right after the first sample that completes a run of 17
\* consecutive depths below 16 (the sample's temperature byte included, when
\* it is sample 0, 6, 12, ...; temperature bytes are not tested); so every
\* slice is at least 27 bytes long.
C27_SliceShape ==
    ex.pc = "done" =>
        \A v \in 1..Len(ex.visits) :
            LET i == ex.visits[v].data
                len == ex.visits[v].size
            IN
            /\ ex.image0[i + 1] = 255
            /\ ex.image0[i + 6 + 1] = 254
            /\ ex.visits[v].fingerprint = i + 2
            /\ ex.visits[v].fsize = 4
            /\ len >= 27
            /\ \E j \in 16..len :
                 /\ C27_Completes(i, j)
                 /\ \A m \in 16..(j - 1) : ~C27_Completes(i, m)
                 /\ len = C27_DepthAt(i, j) + (IF j % 6 = 0 THEN 2 ELSE 1) - i

\* C27 witness: a buffer of a 27-byte dive and a dive whose run ends at
\* sample 18, a sample with a temperature byte, has been scanned: the slices
\* are the 30 bytes of the second and the 27 bytes of the first.
C27_Witness ==
    /\ ex.pc = "done"
    /\ ex.image0 = SynDive([ts |-> TS2, ndeep |-> 0, nsurf |-> 17]) \o LongDive
    /\ ex.visits = <<[data |-> 27, size |-> 30, fingerprint |-> 29, fsize |-> 4],
                     [data |-> 0, size |-> 27, fingerprint |-> 2, fsize |-> 4]>>

\* The reads of the answer: the transport calls after the handshake (write,
\* read, sleep) and the dump command.
C28_Reads == SubSeq(op.iolog, 5, Len(op.iolog))

C28_Progress == SelectSeq(op.events, LAMBDA e : e.type = DC_EVENT_PROGRESS)

\* C28: a dump reads the 32777-byte answer with reads of at most 128 bytes
\* each, and emits exactly one progress event after each successful read,
\* with current increased by the length requested; the read loop terminates:
\* every read but a failing one moves the loop 128 bytes (9 for the last)
\* closer to 32777, a failing read is the last, and when every read
\* succeeds the loop is over after exactly 257 reads with
\* current = maximum = 32777.
C28_ReadLoop ==
    (op.name = "dc_device_dump" /\ Len(op.iolog) >= 4
        /\ op.iolog[4].rc = DC_STATUS_SUCCESS) =>
        LET R == C28_Reads
            P == C28_Progress
            ok == {i \in 1..Len(R) : R[i].rc = DC_STATUS_SUCCESS}
        IN
        /\ Len(R) <= 257
        /\ \A i \in 1..Len(R) :
             /\ R[i].call = "read"
             /\ R[i].size >= 1
             /\ R[i].size <= 128
             /\ R[i].size = IF i < 257 THEN 128 ELSE 9
             /\ i < Len(R) => R[i].rc = DC_STATUS_SUCCESS
        /\ Len(P) = 1 + Cardinality(ok)
        /\ \A i \in ok :
             /\ P[i + 1].data.current = P[i].data.current + R[i].size
             /\ P[i + 1].at = 4 + i
        /\ wire.pc = "reading" =>
             /\ ok = 1..Len(R)
             /\ wire.nbytes = P[Len(P)].data.current
             /\ wire.nbytes < 32777 <=> Len(R) < 257
        /\ wire.pc # "reading" =>
             \/ /\ Len(R) >= 1
                /\ R[Len(R)].rc # DC_STATUS_SUCCESS
                /\ op.rc = R[Len(R)].rc
             \/ /\ Len(R) = 257
                /\ ok = 1..257
                /\ P[258].data.current = 32777
                /\ P[258].data.maximum = 32777

\* C28 witness: a dump whose reads all succeeded is over: 257 reads, the
\* last of 9 bytes, 258 progress events.
C28_Witness ==
    /\ op.name = "dc_device_dump"
    /\ wire.pc # "reading"
    /\ Len(op.iolog) = 4 + 257
    /\ op.iolog[4 + 257].size = 9
    /\ op.iolog[4 + 257].rc = DC_STATUS_SUCCESS
    /\ Len(C28_Progress) = 258
    /\ op.rc = DC_STATUS_SUCCESS

\* The dive of the buffer that starts at i is complete below prev: one of its
\* samples completes a run of 17 near-surface depths and ends at or below prev.
C29_Complete(i, prev) ==
    \E j \in 16..Len(ex.image0) :
        /\ C27_Completes(i, j)
        /\ C27_DepthAt(i, j) + (IF j % 6 = 0 THEN 2 ELSE 1) <= prev

\* C29: the end-of-dive check comes before the fingerprint check: when the
\* marker the scan has come to has no run of 17 near-surface samples below
\* the dive reported before it (or the end of the buffer), the extraction
\* returns a data-format error, even when the timestamp of that dive is at
\* or below the fingerprint cursor; so the cursor ends an extraction with
\* success only at a dive that is structurally complete.
C29_EndCheckedBeforeCursor ==
    (ex.pc = "done" /\ ~ex.cb.null /\ ex.examined # {}) =>
        LET m == CHOOSE c \in ex.examined : \A d \in ex.examined : c <= d
            n == Len(ex.visits)
            reported == n >= 1 /\ ex.visits[n].data = m
            before == IF reported THEN n - 1 ELSE n
            prev == IF before >= 1 THEN ex.visits[before].data ELSE Len(ex.image0)
            stamp == array_uint32_le(SubSeq(ex.image0, m + 3, m + 6))
        IN
        C26_PairAt(m) =>
            /\ ~C29_Complete(m, prev) <=> ex.rc = DC_STATUS_DATAFORMAT
            /\ ex.rc = DC_STATUS_DATAFORMAT => ~reported
            /\ (C29_Complete(m, prev) /\ stamp <= ex.dev0.timestamp) =>
                   ex.rc = DC_STATUS_SUCCESS /\ ~reported

\* C29 witness: the cursor is at 2 and the buffer holds a dive stamped 2 that
\* is cut short, below a whole dive stamped 2^24: the extraction has reported
\* the newer dive and returned a data-format error at the older one.
C29_Witness ==
    /\ ex.pc = "done"
    /\ ex.image0 = SynDive(CutShort) \o LongDive
    /\ ex.dev0.timestamp = 2
    /\ array_uint32_le(SubSeq(ex.image0, 3, 6)) = 2
    /\ ~ex.cb.null
    /\ Len(ex.visits) = 1
    /\ ex.visits[1].data = Len(SynDive(CutShort))
    /\ ex.rc = DC_STATUS_DATAFORMAT

\* C30: for every buffer and every size, the sizes 0 to 7 included, every
\* index the extraction reads (the marker bytes, the four timestamp bytes,
\* the depth bytes of the forward walk) lies in [0, size), and every slice
\* handed to the visitor, and its fingerprint, lies inside the buffer; a
\* buffer of fewer than 8 bytes is not read at all.
C30_ReadsInsideBuffer ==
    ex.pc = "done" =>
        LET size == Len(ex.image0) IN
        /\ ex.reads \subseteq 0..(size - 1)
        /\ size < 8 => ex.reads = {} /\ ex.visits = <<>> /\ ex.rc = DC_STATUS_SUCCESS
        /\ \A v \in 1..Len(ex.visits) :
             /\ ex.visits[v].data >= 0
             /\ ex.visits[v].size > 0
             /\ ex.visits[v].data + ex.visits[v].size <= size
             /\ ex.visits[v].fingerprint >= ex.visits[v].data
             /\ ex.visits[v].fingerprint + ex.visits[v].fsize
                    <= ex.visits[v].data + ex.visits[v].size

\* C30 witness: a buffer of 8 bytes with a marker pair at index 0 has been
\* scanned: the bytes 0, 6 and 7, the last of the buffer, were read.
C30_Witness ==
    /\ ex.pc = "done"
    /\ ex.image0 = StrayPair \o <<0>>
    /\ ex.reads = {0, 6, 7}
    /\ ex.rc = DC_STATUS_DATAFORMAT

(***************************************************************************)
(* The order and the bounds of the slices of one extraction run.           *)
(***************************************************************************)
\* The bytes of the i-th slice handed to the visitor.
C31_Slice(i) == ex.visits[i].data .. (ex.visits[i].data + ex.visits[i].size - 1)

\* C31: within one extraction run the slices handed to the visitor are
\* pairwise disjoint and arrive in strictly decreasing start address: each
\* slice ends at or before the start of the slice reported just before it, and
\* the forward walk for a dive never reads at or beyond the start of the dive
\* reported before it (the end of the buffer for the first dive).
C31_SlicesDisjointDescending ==
    ex.pc = "done" =>
        /\ \A i \in 1..(Len(ex.visits) - 1) :
             /\ ex.visits[i + 1].data < ex.visits[i].data
             /\ ex.visits[i + 1].data + ex.visits[i + 1].size <= ex.visits[i].data
        /\ \A i, j \in DOMAIN ex.visits : i # j => C31_Slice(i) \cap C31_Slice(j) = {}
        /\ \A i \in DOMAIN ex.visits : ex.visits[i].data = ex.walks[i].start
        /\ \A k \in DOMAIN ex.walks :
             LET limit == IF k = 1 THEN Len(ex.image0) ELSE ex.walks[k - 1].start IN
               /\ \A r \in ex.walks[k].reads : ex.walks[k].start + 7 <= r /\ r < limit
               /\ ex.walks[k].found => ex.walks[k].offset <= limit

\* Three dives are reported, the slice of the second ends where the first
\* starts, and the walk of the second has read the last byte before it.
C31_Witness ==
    /\ ex.pc = "done"
    /\ Len(ex.visits) = 3
    /\ ex.visits[2].data + ex.visits[2].size = ex.visits[1].data
    /\ (ex.visits[1].data - 1) \in ex.walks[2].reads

(***************************************************************************)
(* reefnet_sensus_extract_dives followed turn by turn: one step for each   *)
(* turn of the outer loop up to the marker test, one for each turn of the  *)
(* inner loop, and one for the code between the inner loop and the end of  *)
(* the turn of the outer loop.  ex.loop holds the locals of the function.  *)
(***************************************************************************)
\* Variant of CursorDown that leaves the cursor in place.
CursorDown_stay(current) == current
\* current-- (line 372)
CursorDown(current) == current - 1

\* Buffers of no, one and two pieces.
LoopImages ==
    {<<>>} \cup ScanPieces \cup {Cat(<<p, q>>) : p, q \in ScanPieces}

\* No visitor, one that never stops and one that stops at its first dive.
LoopCallbacks == {cb \in Callbacks : cb.stopAt <= 1}

\* Lines 368-369: the locals on entry to the outer loop.
LoopBegin ==
    /\ ex.pc = "idle"
    /\ \E image \in LoopImages, cb \in LoopCallbacks, cursor \in {0, 2} :
         ex' = [ex EXCEPT !.pc = "outer", !.cb = cb, !.runs = 1,
                          !.image0 = image, !.image = image,
                          !.dev0 = SessionAfterDump(cursor),
                          !.dev = SessionAfterDump(cursor),
                          !.loop = [NoLoop EXCEPT !.previous = Len(image),
                                                  !.current = ScanResume(Len(image))]]
    /\ UNCHANGED <<owner, dev, data, io, res, buffer, op, wire, rd>>

\* Lines 370-379: the loop test, the decrement and the marker test.
OuterStep ==
    /\ ex.pc = "outer"
    /\ IF ~(ex.loop.current > 0)
       THEN ex' = [ex EXCEPT !.pc = "done", !.rc = DC_STATUS_SUCCESS]
       ELSE LET current == CursorDown(ex.loop.current) IN
            IF ex.image[current + 1] = 255 /\ ex.image[current + 6 + 1] = 254
            THEN ex' = [ex EXCEPT !.pc = "inner",
                                  !.loop = [@ EXCEPT !.current = current,
                                                     !.found = FALSE,
                                                     !.nsamples = 0, !.count = 0,
                                                     !.offset = current + 7]]
            ELSE ex' = [ex EXCEPT !.loop.current = current]
    /\ UNCHANGED <<owner, dev, data, io, res, buffer, op, wire, rd>>

\* Lines 380-405: one turn of the inner loop, or its exit.
InnerStep ==
    /\ ex.pc = "inner"
    /\ LET l == ex.loop IN
       IF ~(l.offset + 1 <= l.previous)
       THEN ex' = [ex EXCEPT !.pc = "after"]
       ELSE
         LET depth == ex.image[l.offset + 1]
             temperature == l.nsamples % 6 = 0
         IN
           IF temperature /\ l.offset + 1 + 1 > l.previous
           THEN ex' = [ex EXCEPT !.pc = "after", !.loop.offset = l.offset + 1]
           ELSE
             LET offset == l.offset + (IF temperature THEN 2 ELSE 1)
                 count == IF NearSurface(depth) THEN l.count + 1 ELSE 0
             IN ex' = [ex EXCEPT !.pc = IF count = 17 THEN "after" ELSE "inner",
                                 !.loop = [l EXCEPT !.offset = offset,
                                                    !.nsamples = l.nsamples + 1,
                                                    !.count = count,
                                                    !.found = (count = 17)]]
    /\ UNCHANGED <<owner, dev, data, io, res, buffer, op, wire, rd>>

\* Lines 407-423: the end-of-dive test, the cursor test, the visitor and the
\* preparation of the next turn.
AfterWalk ==
    /\ ex.pc = "after"
    /\ LET l == ex.loop
           timestamp == array_uint32_le(SubSeq(ex.image, l.current + 3, l.current + 6))
           v == [data |-> l.current, size |-> l.offset - l.current,
                 fingerprint |-> l.current + 2, fsize |-> 4]
           visits2 == IF ex.cb.null THEN ex.visits ELSE Append(ex.visits, v)
       IN
         IF ~l.found
         THEN ex' = [ex EXCEPT !.pc = "done", !.rc = DC_STATUS_DATAFORMAT]
         ELSE IF OlderThanFingerprint(timestamp, ex.dev.timestamp)
         THEN ex' = [ex EXCEPT !.pc = "done", !.rc = DC_STATUS_SUCCESS]
         ELSE IF StopsAfterVisit(ex.cb, Len(visits2))
         THEN ex' = [ex EXCEPT !.pc = "done", !.rc = DC_STATUS_SUCCESS,
                               !.visits = visits2]
         ELSE ex' = [ex EXCEPT !.pc = "outer", !.visits = visits2,
                               !.loop = [l EXCEPT
                                           !.previous = WalkLimit(l.previous, l.current),
                                           !.current = ScanResume(l.current)]]
    /\ UNCHANGED <<owner, dev, data, io, res, buffer, op, wire, rd>>

NextLoop ==
    \/ LoopBegin
    \/ OuterStep
    \/ InnerStep
    \/ AfterWalk
    \/ ExtractReset

\* The function is one sequential piece of code: it takes its next step as
\* long as it has one.
SpecLoop == InitExtract /\ [][NextLoop]_vars /\ WF_vars(NextLoop)

C32_Running == ex.pc \in {"outer", "inner", "after"}

\* The locals stay inside the buffer (offset is a local of the body of the
\* outer loop), and the visitor has been invoked at most once for every byte
\* of the buffer.
C32_Bounded ==
    C32_Running \/ ex.pc = "done" =>
        /\ ex.loop.current <= ex.loop.previous
        /\ ex.loop.previous <= Len(ex.image0)
        /\ ex.pc \in {"inner", "after"} =>
               /\ ex.loop.current + 7 <= ex.loop.offset
               /\ ex.loop.offset <= ex.loop.previous
        /\ Len(ex.visits) <= Len(ex.image0)

\* Every turn of the outer loop lowers the cursor, every turn of the inner
\* loop raises the offset.
C32_Progress ==
    /\ (ex.pc = "outer" /\ ex.loop.current > 0) =>
           ex'.loop.current < ex.loop.current
    /\ (ex.pc = "after" /\ ex'.pc = "outer") =>
           ex'.loop.current <= ex.loop.current
    /\ (ex.pc = "inner" /\ ex.loop.offset + 1 <= ex.loop.previous) =>
           /\ ex'.loop.offset > ex.loop.offset
           /\ ex'.loop.current = ex.loop.current
           /\ ex'.loop.previous = ex.loop.previous

\* The run has ended with the status and the visits of the extraction.
C32_Returned ==
    /\ ex.pc = "done"
    /\ LET r == reefnet_sensus_extract_dives(ex.image0, Len(ex.image0), TRUE,
                                             ex.dev0.timestamp, ex.cb)
       IN ex.rc = r.rc /\ ex.visits = r.visits

\* C32: extraction terminates for every buffer and every visitor that
\* returns: the scan cursor strictly decreases on every turn of the outer
\* loop and the forward offset strictly increases on every turn of the inner
\* loop, so every run that has begun returns, and the visitor is invoked a
\* number of times bounded by the size of the buffer.
C32_Terminates ==
    /\ []C32_Bounded
    /\ [][C32_Progress]_vars
    /\ C32_Running ~> C32_Returned

\* A run over two dives has gone down to index 0 and returned, the visitor
\* invoked twice.
C32_Witness ==
    /\ ex.pc = "done"
    /\ Len(ex.visits) = 2
    /\ ex.loop.current = 0
    /\ ex.loop.nsamples > 0

(***************************************************************************)
(* Dives stamped 0 in a session.                                           *)
(***************************************************************************)
\* The start markers of a memory image, and those of dives stamped 0.
C33_Starts(image) == Markers(image, Len(image) - 7)
C33_ZeroStamped(image) ==
    {c \in C33_Starts(image) : array_uint32_le(SubSeq(image, c + 3, c + 6)) = 0}

\* The dive at c has its end before the next dive of the image.
C33_Whole(image, c) ==
    LET above == {d \in C33_Starts(image) : d > c}
        limit == IF above = {} THEN Len(image)
                 ELSE CHOOSE d \in above : \A e \in above : d <= e
    IN WalkSamples(image, limit, c + 7).found

\* C33: through a device session a dive whose timestamp field is 0 is never
\* handed to the visitor, whatever the cursor (0 after the open and after a
\* set-fingerprint with an empty marker): no dive at or below the address of a
\* dive stamped 0 is reported, and when every dive above the newest dive
\* stamped 0 has been reported and the visitor has not stopped the scan, the
\* foreach ends there with success.
C33_ZeroStampNeverReported ==
    (op.name = "dc_device_foreach" /\ op.scratch # <<>>) =>
        LET zero == C33_ZeroStamped(op.scratch) IN
          /\ \A i \in 1..Len(op.visits) :
               /\ op.visits[i].data \notin zero
               /\ \A z \in zero : op.visits[i].data > z
          /\ \A z \in zero :
               ( /\ \A y \in zero : y <= z
                 /\ C33_Whole(op.scratch, z)
                 /\ ~op.cb.null
                 /\ {op.visits[i].data : i \in 1..Len(op.visits)}
                        = {d \in C33_Starts(op.scratch) : d > z}
                 /\ ~StopsAfterVisit(op.cb, Len(op.visits)) )
               => op.rc = DC_STATUS_SUCCESS

\* With the cursor at 0 and a visitor that never stops, the image of dives
\* stamped 1, 0 and 2 (oldest first) yields the dive stamped 2 alone.
C33_Witness ==
    /\ op.name = "dc_device_foreach"
    /\ op.scratch = ImgZeroStamp
    /\ op.pre.timestamp = 0
    /\ op.cb = [null |-> FALSE, stopAt |-> 0]
    /\ Len(op.visits) = 1
    /\ op.rc = DC_STATUS_SUCCESS

(***************************************************************************)
(* device_dump_read as a program that keeps running: it takes its next     *)
(* step whenever it has one.  Nothing is assumed about the answers of the  *)
(* reads but that each read returns: a read may succeed every time.        *)
(***************************************************************************)
\* The steps of device_dump_read that do not depend on a read failing.
ReadRuns ==
    \/ ReadStart
    \/ ReadBlock /\ rd'.rc = DC_STATUS_SUCCESS
    \/ ReadReturn
    \/ ReadAgain

SpecReadLive == InitRead /\ [][NextRead]_vars /\ WF_vars(ReadRuns)

\* C34: device_dump_read terminates for every size and block size when each
\* underlying read returns: a call that has entered its loop leaves it, after
\* the last block or at the first failing read.
C34_DumpReadTerminates ==
    (rd.pc = "loop") ~> (rd.pc = "done")

\* The same for the calls with a block size above 0.
C34_TerminatesWithBlocks ==
    (rd.pc = "loop" /\ rd.blocksize > 0) ~> (rd.pc = "done")

(***************************************************************************)
(* The waiting flag from the dump command to the close.                    *)
(***************************************************************************)
\* The writes of the command byte b the last call made.
C35_Wrote(b) ==
    {i \in 1..Len(op.iolog) : op.iolog[i].call = "write" /\ op.iolog[i].data = <<b>>}

C35_Closes == {"dc_device_close", "close_device_data"}

\* After a dump or a foreach: waiting is 1 when the write of the dump command
\* failed, 0 when it was written, whatever became of the transfer.
C35_AfterDumpCommand ==
    op.name \in {"dc_device_dump", "dc_device_foreach"} =>
        \A i \in C35_Wrote(64) :
            /\ op.iolog[i].rc # DC_STATUS_SUCCESS => dev.waiting = 1
            /\ op.iolog[i].rc = DC_STATUS_SUCCESS => dev.waiting = 0

\* Between a dump and a close nothing changes waiting, and the close writes
\* the cancel byte exactly when it finds waiting set.
C35_UntilClose ==
    /\ op'.name \notin ({"dc_device_dump", "dc_device_foreach",
                         "reefnet_sensus_device_open",
                         "open_ble_device_with_descriptor"} \cup C35_Closes)
           => dev'.waiting = dev.waiting
    /\ (op'.name \in C35_Closes /\ dev.state = "open") =>
           LET writes == {i \in 1..Len(op'.iolog) : op'.iolog[i].call = "write"} IN
             IF dev.waiting # 0
             THEN \E i \in writes : writes = {i} /\ op'.iolog[i].data = <<0>>
             ELSE writes = {}

\* C35: if, after a successful handshake, writing the dump command fails,
\* waiting stays true, so a close that follows sends the cancel byte; once the
\* dump command has been written waiting is false, so a close that follows a
\* failed or completed transfer sends no cancel byte.
C35_CancelFollowsDumpCommand ==
    /\ []C35_AfterDumpCommand
    /\ [][C35_UntilClose]_vars

\* A dump whose handshake was answered and whose dump command could not be
\* written: the session is left waiting.
C35_Witness ==
    /\ op.name = "dc_device_dump"
    /\ Len(op.iolog) = 4
    /\ op.iolog[2].call = "read"
    /\ op.iolog[2].rc = DC_STATUS_SUCCESS
    /\ op.iolog[4].data = <<64>>
    /\ op.iolog[4].rc # DC_STATUS_SUCCESS
    /\ op.pre.waiting = 0
    /\ dev.waiting = 1

(***************************************************************************)
(* The bytes a session writes over its whole lifetime: an open session,    *)
(* any sequence of dump, foreach and set-fingerprint calls, and its close. *)
(* io.traffic keeps what went over the transport from call to call.        *)
(***************************************************************************)
MaxCalls == 3

RECURSIVE Commands(_, _, _)
\* The writes and the handshake reads of a log of transport calls, each tagged
\* with the number n and the name of the call that made them.
Commands(iolog, n, name) ==
    IF iolog = <<>> THEN <<>>
    ELSE LET c == Head(iolog)
             rest == Commands(Tail(iolog), n, name)
         IN IF c.call = "write" \/ (c.call = "read" /\ c.size = SZ_HANDSHAKE + 2)
            THEN <<[call |-> c.call, data |-> c.data, rc |-> c.rc,
                    nop |-> n, by |-> name]>> \o rest
            ELSE rest

\* A call of the session ends: as Commit, and the traffic of the call is
\* added to the traffic of the session.
CommitTraffic(name, r, cb) ==
    /\ dev' = r.dev
    /\ data' = r.data
    /\ res' = r.res
    /\ buffer' = r.buffer
    /\ io' = [r.io EXCEPT !.nops = @ + 1,
                          !.traffic = @ \o Commands(r.iolog, io.nops + 1, name)]
    /\ op' = Observed(name, r, Pre, cb)
    /\ UNCHANGED <<owner, wire, rd, ex>>

\* One environment for each way a dump can go.
ProtocolEnvs ==
    {EnvOk(Reply(ImgOne)),
     [EnvOk(Reply(ImgOne)) EXCEPT !.cb = [null |-> FALSE, stopAt |-> 1]],
     [EnvOk(Reply(ImgOne)) EXCEPT !.w1 = DC_STATUS_IO],
     [EnvOk(Reply(ImgOne)) EXCEPT !.r1 = DC_STATUS_TIMEOUT],
     [EnvOk(Reply(ImgOne)) EXCEPT !.w2 = DC_STATUS_IO],
     [EnvOk(Reply(ImgOne)) EXCEPT !.failAt = 2, !.failSt = DC_STATUS_TIMEOUT],
     EnvOk(Corrupt(Reply(ImgOne), 4, 66))}
    \cup {[EnvOk(Reply(ImgOne)) EXCEPT !.hs = h] : h \in HsBad}

ProtocolDump ==
    /\ dev.state = "open"
    /\ op.name = "idle"
    /\ io.nops < MaxCalls
    /\ \E env \in ProtocolEnvs :
         CommitTraffic("dc_device_dump", dc_device_dump(Machine, env, MemSize), NoCallback)

ProtocolForeach ==
    /\ dev.state = "open"
    /\ op.name = "idle"
    /\ io.nops < MaxCalls
    /\ \E env \in ProtocolEnvs :
         CommitTraffic("dc_device_foreach", dc_device_foreach(Machine, env, MemSize), env.cb)

ProtocolClose ==
    /\ dev.state = "open"
    /\ op.name = "idle"
    /\ \E env \in CloseEnvs :
         CommitTraffic("dc_device_close", dc_device_close(Machine, env), NoCallback)

NextProtocol ==
    \/ ProtocolDump
    \/ ProtocolForeach
    \/ SetFingerprint
    \/ ProtocolClose
    \/ Proceed

SpecProtocol == InitEmit /\ [][NextProtocol]_vars

C36_Writes == {i \in 1..Len(io.traffic) : io.traffic[i].call = "write"}

\* C36: over the whole lifetime of a session the command bytes written obey a
\* fixed order: the session writes 0x0A, 0x40 and 0x00 and nothing else; the
\* dump command 0x40 is written only directly after a handshake command 0x0A
\* of the same call that was written and whose reply was read and verified as
\* "OK"; the cancel command 0x00 is written only by the close, at most once,
\* and nothing is written after it.
C36_ProtocolOrder ==
    /\ \A i \in C36_Writes : io.traffic[i].data \in {<<10>>, <<64>>, <<0>>}
    /\ \A i \in C36_Writes :
         io.traffic[i].data = <<64>> =>
             /\ i >= 3
             /\ io.traffic[i - 2].call = "write"
             /\ io.traffic[i - 2].data = <<10>>
             /\ io.traffic[i - 2].rc = DC_STATUS_SUCCESS
             /\ io.traffic[i - 1].call = "read"
             /\ io.traffic[i - 1].rc = DC_STATUS_SUCCESS
             /\ SubSeq(io.traffic[i - 1].data, 1, 2) = <<79, 75>>
             /\ io.traffic[i - 2].nop = io.traffic[i].nop
             /\ io.traffic[i - 1].nop = io.traffic[i].nop
             /\ io.traffic[i].by \in {"dc_device_dump", "dc_device_foreach"}
    /\ \A i \in C36_Writes :
         io.traffic[i].data = <<0>> =>
             /\ io.traffic[i].by = "dc_device_close"
             /\ i = Len(io.traffic)
             /\ \A j \in C36_Writes : io.traffic[j].data = <<0>> => j = i
    /\ dev.state # "open" => op.name \in {"idle", "dc_device_close"}

\* A session that wrote 0x0A, 0x40 for a complete dump, 0x0A for a handshake
\* that was not answered, 0x0A and a dump command that failed, and then the
\* cancel command on its close.
C36_Witness ==
    /\ dev.state = "freed"
    /\ [i \in 1..Len(io.traffic) |-> io.traffic[i].data]
         = <<<<10>>, HsGood, <<64>>, <<10>>, Rep(0, SZ_HANDSHAKE + 2),
             <<10>>, HsGood, <<64>>, <<0>>>>
    /\ io.traffic[8].rc = DC_STATUS_IO
    /\ io.traffic[9].rc = DC_STATUS_SUCCESS

(***************************************************************************)
(* The open entry points of the bridge and their teardown.  SpecBridge     *)
(* opens through open_ble_device, open_ble_device_with_descriptor and the  *)
(* two copies of open_suunto_eonsteel, with every failure point, and tears *)
(* down with close_device_data, any number of times, until MaxOpens        *)
(* contexts have been created.                                             *)
(***************************************************************************)
\* dc_descriptor_free: the descriptor d is freed.
dc_descriptor_free(m, d) ==
    [Called(m, "dc_descriptor_free", "void") EXCEPT !.res.desc_freed = @ \cup {d}]

\* find_matching_descriptor: the iterator hands out the descriptors one by
\* one, each a new object; those that do not match are freed, the one that
\* matches is returned (it is the last one created).  env.find tells what the
\* iteration meets: no iterator, a match at the first or at the second
\* descriptor, or no match among the descriptors.
find_matching_descriptor(m, env) ==
    IF env.find = "noiter" THEN [m EXCEPT !.rc = DC_STATUS_NOMEMORY]
    ELSE IF env.find = "first"
    THEN [m EXCEPT !.res.desc_news = @ + 1, !.rc = DC_STATUS_SUCCESS]
    ELSE
      LET m1 == dc_descriptor_free([m EXCEPT !.res.desc_news = @ + 1], m.res.desc_news + 1)
      IN IF env.find = "second"
         THEN [m1 EXCEPT !.res.desc_news = @ + 1, !.rc = DC_STATUS_SUCCESS]
         ELSE [m1 EXCEPT !.rc = DC_STATUS_UNSUPPORTED]

\* open_ble_device: a context unless data holds one, the descriptor of the
\* family and model, open_ble_device_with_descriptor, dc_descriptor_free.
open_ble_device(m, env) ==
    IF ~m.data.context /\ ~env.ctx0
    THEN Called([m EXCEPT !.rc = DC_STATUS_NOMEMORY], "dc_context_new", DC_STATUS_NOMEMORY)
    ELSE
      LET m1 == IF m.data.context THEN m
                ELSE [Called(m, "dc_context_new", DC_STATUS_SUCCESS)
                         EXCEPT !.data.context = TRUE, !.res.ctx_news = @ + 1]
          m2 == find_matching_descriptor(m1, env)
      IN
      IF m2.rc # DC_STATUS_SUCCESS THEN Called(m2, "find_matching_descriptor", m2.rc)
      ELSE
        LET d  == m2.res.desc_news
            m3 == open_ble_device_with_descriptor(
                      Called(m2, "find_matching_descriptor", m2.rc), [env EXCEPT !.desc = d])
        IN [dc_descriptor_free(m3, d) EXCEPT !.rc = m3.rc]

\* suunto_eonsteel_device_open: a device on success; on failure nothing it
\* allocated is left and *out is not written.
suunto_eonsteel_device_open(m, env) == dc_device_open(m, env)

\* open_suunto_eonsteel of BLETest/libdc-swift.
open_suunto_eonsteel(m, env) ==
    LET m0 == [m EXCEPT !.data = NoData] IN
    IF ~env.ctx THEN Called([m0 EXCEPT !.rc = DC_STATUS_NOMEMORY], "dc_context_new", DC_STATUS_NOMEMORY)
    ELSE
      LET m1 == [Called(m0, "dc_context_new", DC_STATUS_SUCCESS)
                    EXCEPT !.data.context = TRUE, !.res.ctx_news = @ + 1]
          m2 == ble_packet_open(m1, env)
      IN
      IF m2.rc # DC_STATUS_SUCCESS
      THEN [close_device_data(Called(m2, "ble_packet_open", m2.rc), env) EXCEPT !.rc = m2.rc]
      ELSE
        LET m3 == dc_iostream_sleep(Called(m2, "ble_packet_open", m2.rc), 1000)
            m4 == suunto_eonsteel_device_open(m3, env)
        IN Called(m4, "suunto_eonsteel_device_open", m4.rc)

\* open_suunto_eonsteel of BLETest/libdivecomputer: the failure paths release
\* by hand and leave the pointers of data as they are.
bletest_open_suunto_eonsteel(m, env) ==
    LET m0 == [m EXCEPT !.data.device = FALSE, !.data.context = FALSE,
                        !.data.iostream = FALSE] IN
    IF ~env.ctx THEN Called([m0 EXCEPT !.rc = DC_STATUS_NOMEMORY], "dc_context_new", DC_STATUS_NOMEMORY)
    ELSE
      LET m1 == [Called(m0, "dc_context_new", DC_STATUS_SUCCESS)
                    EXCEPT !.data.context = TRUE, !.res.ctx_news = @ + 1]
          m2 == bletest_ble_packet_open(m1, env)
      IN
      IF m2.rc # DC_STATUS_SUCCESS
      THEN [Called(Called(m2, "ble_packet_open", m2.rc), "dc_context_free", "void")
               EXCEPT !.res.ctx_frees = @ + 1, !.rc = m2.rc]
      ELSE
        LET m3 == suunto_eonsteel_device_open(Called(m2, "ble_packet_open", m2.rc), env) IN
        IF m3.rc # DC_STATUS_SUCCESS
        THEN LET m4 == Called(dc_custom_close(Called(m3, "suunto_eonsteel_device_open", m3.rc),
                                              env.bc),
                              "dc_iostream_close", env.bc)
             IN [Called(m4, "dc_context_free", "void")
                    EXCEPT !.res.ctx_frees = @ + 1, !.rc = m3.rc]
        ELSE Called(m3, "suunto_eonsteel_device_open", m3.rc)

\* What find_matching_descriptor can meet, with everything after it going well.
FindEnvs ==
    {[EnvOk(<<>>) EXCEPT !.ctx0 = FALSE]}
    \cup {[EnvOk(<<>>) EXCEPT !.find = f] : f \in {"noiter", "none", "second"}}

BleTestOpenEnvs ==
    {[EnvOk(<<>>) EXCEPT !.ctx = FALSE]}
    \cup {[EnvOk(<<>>) EXCEPT !.ble = b] :
             b \in {"nocreate", "noconnect", "nodiscover", "nonotify", "nostream"}}
    \cup {[e EXCEPT !.bc = b] : e \in {x \in OpenEnvs : x.cfg = DC_STATUS_SUCCESS},
                                b \in {DC_STATUS_SUCCESS, DC_STATUS_IO}}

\* The application opens by family and model when data holds no connection.
OpenBleDevice ==
    /\ owner \in {"none", "bridge"}
    /\ op.name = "idle"
    /\ ~data.device /\ ~data.iostream
    /\ res.ctx_news < MaxOpens
    /\ res.desc_news < MaxOpens
    /\ \E env \in FindEnvs \cup BleOpenEnvs :
         Commit("open_ble_device", open_ble_device(Machine, env), NoCallback)
    /\ owner' = "bridge"

OpenSuunto ==
    /\ owner \in {"none", "swift"}
    /\ op.name = "idle"
    /\ data = NoData
    /\ res.ctx_news < MaxOpens
    /\ \E env \in BleOpenEnvs :
         Commit("open_suunto_eonsteel", open_suunto_eonsteel(Machine, env), NoCallback)
    /\ owner' = "swift"

BleTestOpenSuunto ==
    /\ owner = "none"
    /\ op.name = "idle"
    /\ \E env \in BleTestOpenEnvs :
         Commit("open_suunto_eonsteel", bletest_open_suunto_eonsteel(Machine, env), NoCallback)
    /\ owner' = "bletest"

\* close_device_data of BLETest/libdc-swift: the same three steps (the data
\* of that copy has no descriptor).
SwiftCloseDeviceData ==
    /\ owner = "swift"
    /\ op.name = "idle"
    /\ \E env \in CloseEnvs :
         Commit("close_device_data", close_device_data(Machine, env), NoCallback)
    /\ UNCHANGED owner

NextBridge ==
    \/ OpenBle
    \/ OpenBleDevice
    \/ OpenSuunto
    \/ BleTestOpenSuunto
    \/ CloseDeviceData
    \/ SwiftCloseDeviceData
    \/ Proceed

SpecBridge == Init /\ [][NextBridge]_vars

\* C37: open_ble_device never loses track of a context it created: when
\* the call returns, the contexts created and not yet freed are the one data
\* refers to, if any, and no other; so after the teardown that follows as many
\* contexts have been freed as were created.
C37_ContextsTracked ==
    (owner = "bridge" /\ op.name \in {"open_ble_device", "close_device_data"}) =>
        res.ctx_news - res.ctx_frees = (IF data.context THEN 1 ELSE 0)

\* C38: whenever data holds a descriptor, that descriptor has not been
\* freed; in particular the descriptor data holds after open_ble_device
\* returned success is still live.
C38_StoredDescriptorLive ==
    data.descriptor => (data.descid # 0 /\ data.descid \notin res.desc_freed)

\* The place of a release in the order device, iostream, context (0: the
\* call is no release).
C39_Rank(fn) ==
    IF fn = "dc_device_close" THEN 1
    ELSE IF fn = "dc_iostream_close" THEN 2
    ELSE IF fn = "dc_context_free" THEN 3
    ELSE 0

C39_Releases == {i \in DOMAIN op.calls : C39_Rank(op.calls[i].fn) > 0}

\* C39: an open entry point of the bridge that returns an error has released
\* what it acquired, the device before the iostream before the context, and
\* leaves the three pointers of data null; and close_device_data releases
\* each of the three at most once however many times it is called: none is
\* released more often than created, one call releases each at most once, and
\* after it the three pointers are null.
C39_FailedOpenReleasesAll ==
    /\ (/\ op.name \in {"open_ble_device_with_descriptor", "open_suunto_eonsteel"}
        /\ op.rc # DC_STATUS_SUCCESS) =>
           /\ ~data.device /\ ~data.iostream /\ ~data.context
           /\ res.dev_frees = res.dev_allocs
           /\ io.state # "open"
           /\ io.ble_frees = io.ble_news
           /\ res.ctx_frees = res.ctx_news
           /\ \A i, j \in C39_Releases :
                i < j => C39_Rank(op.calls[i].fn) < C39_Rank(op.calls[j].fn)
    /\ res.dev_frees <= res.dev_allocs
    /\ io.closes <= io.ble_news
    /\ res.ctx_frees <= res.ctx_news
    /\ op.name = "close_device_data" =>
           /\ ~data.device /\ ~data.iostream /\ ~data.context
           /\ \A i, j \in C39_Releases : op.calls[i].fn = op.calls[j].fn => i = j

=============================================================================
